---- MODULE Spec2Model ----
(***************************************************************************)
(* Model of ostensibly-typed: the namespace tree built while the visitor   *)
(* walks the program (ostensiblyTyped, findNamespaces,                      *)
(* resolveImplicitTypeDefs) and its assembly into declarations              *)
(* (generateDeclarationFile, generateNamespaceDeclarations).                *)
(*                                                                          *)
(* Strings are sequences of tokens: an identifier is one token, "." and "~" *)
(* are tokens of their own, so "A.B~C" is <<"A", ".", "B", "~", "C">> and   *)
(* the empty string is <<>>.  A JavaScript Map is a sequence of [k, v]      *)
(* pairs in insertion order.  A missing object property is Undefined (for   *)
(* nodes), "undefined" (for the entry type) or hasMembers = FALSE.          *)
(*                                                                          *)
(* The functions of the library that take no part of the tree (the type     *)
(* resolver, the member filter, the restructuring of property tags, the     *)
(* generators of single declarations) are exercised one call at a time in   *)
(* SpecFunctions: call holds the arguments of a call and, once the call     *)
(* has returned, its result.                                                *)
(*                                                                          *)
(* The Rollup plugins (generateDeclarations, filterGeneratedBundle) are     *)
(* run hook by hook in SpecPlugin: generator and outputPlugin hold the      *)
(* variables their hooks close over, and what the hooks did to Rollup.      *)
(***************************************************************************)
EXTENDS Integers, Sequences, FiniteSets, TLC

VARIABLES namespaces, modules, defaultExport, status, output, visited, last, call,
          generator, outputPlugin

vars == <<namespaces, modules, defaultExport, status, output, visited, last, call, generator, outputPlugin>>

\* Number of syntax nodes the visitor walks in one run.
MaxNodes == 2

\* Longest dotted namespace path written in a tag of the walked program.
MaxDepth == 2

Names == {"A", "B"}

ModuleName == <<"m">>

(***************************************************************************)
(* Strings                                                                 *)
(***************************************************************************)
Str(name) == <<name>>

Dotted(a, b) == a \o <<".">> \o b

Truthy(s) == s # <<>>

HasTok(s, tok) == \E i \in 1..Len(s) : s[i] = tok

FirstTok(s, tok) == CHOOSE i \in 1..Len(s) : s[i] = tok /\ \A j \in 1..(i - 1) : s[j] # tok

\* String.prototype.split(".")
RECURSIVE Split(_)
Split(s) ==
    IF ~HasTok(s, ".") THEN <<s>>
    ELSE <<SubSeq(s, 1, FirstTok(s, ".") - 1)>> \o Split(SubSeq(s, FirstTok(s, ".") + 1, Len(s)))

\* comment.replace(/~.*$/, ""): drop everything from the first "~"
StripLocal(s) == IF HasTok(s, "~") THEN SubSeq(s, 1, FirstTok(s, "~") - 1) ELSE s

\* comment.replace(/^.*?~/, ""): drop everything up to the first "~" (lazy match)
StripNamespace(s) == IF HasTok(s, "~") THEN SubSeq(s, FirstTok(s, "~") + 1, Len(s)) ELSE s

\* All dotted paths of 1..d segments over Names
RECURSIVE PathsOfLen(_)
PathsOfLen(d) ==
    IF d = 1 THEN {Str(n) : n \in Names}
    ELSE {Dotted(p, Str(n)) : p \in PathsOfLen(d - 1), n \in Names}

Paths == UNION {PathsOfLen(d) : d \in 1..MaxDepth}

(***************************************************************************)
(* Map                                                                     *)
(***************************************************************************)
EmptyMap == <<>>

MapHas(m, k) == \E i \in 1..Len(m) : m[i].k = k

MapIndex(m, k) == CHOOSE i \in 1..Len(m) : m[i].k = k

MapGet(m, k) == m[MapIndex(m, k)].v

MapKeys(m) == [i \in 1..Len(m) |-> m[i].k]

\* A set that moves an existing key to the end, as deleting and inserting would
MapSetMoving(m, k, v) ==
    Append(SelectSeq(m, LAMBDA pair : pair.k # k), [k |-> k, v |-> v])

\* Map.prototype.set: an existing key keeps its place, a new key goes last
MapSet(m, k, v) ==
    IF MapHas(m, k) THEN [m EXCEPT ![MapIndex(m, k)] = [k |-> k, v |-> v]]
    ELSE Append(m, [k |-> k, v |-> v])

(***************************************************************************)
(* Syntax nodes and documentation tags                                     *)
(***************************************************************************)
Undefined == [k |-> "undefined"]

\* Name nodes: an identifier, or a namespace declaration name.body (the parser's
\* form of a dotted typedef or callback name)
Identifier(text) == [escapedText |-> text]

NamespaceName(text, body) == [name |-> Identifier(text), body |-> body]

\* A JSDoc tag: tagName, the qualified name node the parser read (fullName,
\* Undefined when there is none), the free text after it (comment), whether it
\* has a type expression, and the checker's display name for that type
\* (typeString).
Tag(tagName, fullName, comment, hasTypeExpression, typeString) ==
    [tagName |-> tagName, fullName |-> fullName, comment |-> comment,
     hasTypeExpression |-> hasTypeExpression, typeString |-> typeString]

SimpleTag(tagName, comment) == Tag(tagName, Undefined, comment, FALSE, <<>>)

Flag(tagName) == SimpleTag(tagName, <<>>)

\* A @param tag: the parameter it names and its declared type
ParamTag(name, type) ==
    [tagName |-> "param", fullName |-> Undefined, comment |-> <<>>, hasTypeExpression |-> TRUE,
     typeString |-> <<>>, name |-> name, type |-> type]

Doc(tags) == [tags |-> tags]

HasTag(doc, tagNames) == \E i \in 1..Len(doc.tags) : doc.tags[i].tagName \in tagNames

\* ts.getAllJSDocTags(node, predicate): the tags of every doc block, in order
RECURSIVE FlattenTags(_)
FlattenTags(docs) == IF docs = <<>> THEN <<>> ELSE Head(docs).tags \o FlattenTags(Tail(docs))

GetAllJSDocTags(node, tagNames) ==
    IF node = Undefined THEN <<>>
    ELSE SelectSeq(FlattenTags(node.jsDoc), LAMBDA t : t.tagName \in tagNames)

(***************************************************************************)
(* Namespace entries                                                       *)
(***************************************************************************)
Entry(type, node, source, hasMembers, members) ==
    [type |-> type, node |-> node, source |-> source, hasMembers |-> hasMembers, members |-> members]

\* {members: new Map()}
IntermediateEntry == Entry("undefined", Undefined, Undefined, TRUE, EmptyMap)

\* {node: tag, source: node}: the tag with its owning doc block (tag.parent)
TypeEntry(tag, doc, source) ==
    Entry("undefined", [k |-> "tag", tag |-> tag, parent |-> doc, synthetic |-> FALSE], source, FALSE, EmptyMap)

\* The whenFound callbacks, as data
DefaultWhenFound == [cb |-> "default"]

ClassWhenFound == [cb |-> "class"]

ModuleWhenFound == [cb |-> "module"]

TypeDefWhenFound(tag, doc, source) == [cb |-> "typedef", tag |-> tag, doc |-> doc, source |-> source]

\* ({type, node}, existing = {}) => ({...existing, type, node, source: node}): the
\* spread the other way round, where the new type and node override
WhenFoundClassOverwriting(found, existing) ==
    Entry(found.type, found.node, found.node, existing.hasMembers, existing.members)

\* ({type, node}, existing = {}) => ({type, node, ...existing, source: node}): the
\* properties the existing entry has override the new type and node
WhenFoundClass(found, existing) ==
    Entry(IF existing.type # "undefined" THEN existing.type ELSE found.type,
          IF existing.node # Undefined THEN existing.node ELSE found.node,
          found.node, existing.hasMembers, existing.members)

\* ({node}) => [first @namespace tag of node]?.comment
WhenFoundModule(found) ==
    LET tags == GetAllJSDocTags(found.node, {"namespace"})
    IN IF tags = <<>> THEN <<>> ELSE tags[1].comment

ApplyWhenFound(whenFound, found, existing) ==
    CASE whenFound.cb = "default" -> existing
      [] whenFound.cb = "class" -> WhenFoundClass(found, existing)
      [] whenFound.cb = "module" -> WhenFoundModule(found)
      [] whenFound.cb = "typedef" -> TypeEntry(whenFound.tag, whenFound.doc, whenFound.source)

(***************************************************************************)
(* findNamespaces                                                          *)
(***************************************************************************)
\* The result of a call: the target map after it, the value returned
\* (Undefined when nothing is returned) and whether it threw a TypeError.
Outcome(map, value, threw) == [map |-> map, value |-> value, threw |-> threw]

\* A last step that adds the value under the name without looking for it first
SetFoundAppending(target, part, value) == Outcome(Append(target, [k |-> part, v |-> value]), value, FALSE)

\* target.set(part, value).get(part) at the last part of the name
SetFound(target, part, value) == Outcome(MapSet(target, part, value), value, FALSE)

\* The loop has returned from the parts below: the members map of the entry at
\* part is the map the remaining iterations worked on
Ascend(target, part, entry, below) ==
    Outcome(MapSet(target, part, [entry EXCEPT !.members = below.map]), below.value, below.threw)

\* One iteration of the while loop and those after it.  Every caller passes a
\* function (or leaves the default) as whenFound.
RECURSIVE Traverse(_, _, _, _)
RECURSIVE Descend(_, _, _, _, _)
Descend(target, entry, namespace, found, whenFound) ==
    IF Len(namespace) > 1
    THEN IF ~entry.hasMembers THEN Outcome(target, Undefined, TRUE)
         ELSE Ascend(target, Head(namespace), entry, Traverse(entry.members, Tail(namespace), found, whenFound))
    ELSE SetFound(target, Head(namespace), ApplyWhenFound(whenFound, found, entry))

Traverse(target, namespace, found, whenFound) ==
    IF MapHas(target, Head(namespace))
    THEN Descend(target, MapGet(target, Head(namespace)), namespace, found, whenFound)
    ELSE Descend(MapSet(target, Head(namespace), IntermediateEntry), IntermediateEntry, namespace, found, whenFound)

\* node is a string (a Str) or a syntax node whose first tag named in tagNames
\* gives the name
FindNamespaces(node, isString, target, tagNames, whenFound) ==
    LET tags == IF isString THEN <<>> ELSE GetAllJSDocTags(node, tagNames)
        name == IF isString THEN node ELSE IF tags = <<>> THEN <<>> ELSE tags[1].comment
        type == IF tags = <<>> THEN "undefined" ELSE tags[1].tagName
    IN IF ~Truthy(name) THEN Outcome(target, Undefined, FALSE)
       ELSE Traverse(target, Split(name), [name |-> name, type |-> type, node |-> node], whenFound)

(***************************************************************************)
(* resolveImplicitTypeDefs                                                 *)
(***************************************************************************)
\* Array.prototype.join(".") of a list of identifiers
RECURSIVE JoinDot(_)
JoinDot(parts) ==
    IF parts = <<>> THEN <<>>
    ELSE IF Len(parts) = 1 THEN Str(parts[1])
    ELSE Dotted(Str(parts[1]), JoinDot(Tail(parts)))

\* traverseName: the identifiers of a name node, outermost first
RECURSIVE TraverseName(_)
TraverseName(node) ==
    IF "name" \in DOMAIN node
    THEN <<node.name.escapedText>> \o (IF node.body # Undefined THEN TraverseName(node.body) ELSE <<>>)
    ELSE IF "escapedText" \in DOMAIN node THEN <<node.escapedText>> ELSE <<>>

GetNamespaceNameForTag(tag) ==
    JoinDot(SelectSeq(TraverseName(tag.fullName), LAMBDA s : s # ""))

\* entry.members.set(key, value) for the entry at a path of the tree
RECURSIVE SetMember(_, _, _, _)
SetMember(target, namespace, key, value) ==
    MapSet(target, Head(namespace),
           [MapGet(target, Head(namespace)) EXCEPT !.members =
               IF Len(namespace) > 1 THEN SetMember(@, Tail(namespace), key, value) ELSE MapSet(@, key, value)])

\* What a step of discovery did: the tree after it, whether it threw, and what
\* happened on the way (for the record kept in last)
Step(map, threw, events) == [map |-> map, threw |-> threw, events |-> events]

\* A step followed by the steps after it
Followed(first, rest) == Step(rest.map, rest.threw, first.events \cup rest.events)

TypeTagNames == {"callback", "typedef", "enum"}

\* getNamespaceNameForTag(tag) || tag.comment.replace(/~.*$/, "") || checker.typeToString(...)
CommentedTagNamespace(tag) ==
    IF Truthy(GetNamespaceNameForTag(tag)) THEN GetNamespaceNameForTag(tag)
    ELSE IF Truthy(StripLocal(tag.comment)) THEN StripLocal(tag.comment)
    ELSE tag.typeString

\* found?.members?.set(local name, {node: tag, source: node})
SetTypeMember(found, name, tag, doc, node) ==
    IF found.threw THEN Step(found.map, TRUE, {"threw"})
    ELSE IF found.value = Undefined THEN Step(found.map, FALSE, {"dropped"})
    ELSE IF ~found.value.hasMembers THEN Step(found.map, FALSE, {"nomembers"})
    ELSE Step(SetMember(found.map, Split(name), StripNamespace(tag.comment), TypeEntry(tag, doc, node)),
              FALSE, {"registered"})

\* The tag was handed to findNamespaces with a callback that stores it
SetTypeEntry(found) ==
    Step(found.map, found.threw,
         IF found.threw THEN {"threw"} ELSE IF found.value = Undefined THEN {"dropped"} ELSE {"registered"})

\* The body of the loop without the test for an internal tag
RegisterTypeTagOfInternal(map, tag, doc, node) ==
    IF Truthy(tag.comment)
    THEN IF ~Truthy(GetNamespaceNameForTag(tag)) /\ ~Truthy(StripLocal(tag.comment)) /\ ~tag.hasTypeExpression
         THEN Step(map, TRUE, {"threw"})
         ELSE SetTypeMember(FindNamespaces(CommentedTagNamespace(tag), TRUE, map, {}, DefaultWhenFound),
                            CommentedTagNamespace(tag), tag, doc, node)
    ELSE IF tag.hasTypeExpression
    THEN SetTypeEntry(FindNamespaces(GetNamespaceNameForTag(tag), TRUE, map, {}, TypeDefWhenFound(tag, doc, node)))
    ELSE Step(map, FALSE, {"dropped"})

\* The body of the loop over the type-defining tags of a doc block.  When
\* neither the name nor the comment gives a namespace, the type expression is
\* read, and reading it throws when the tag has none.
RegisterTypeTag(map, tag, doc, node) ==
    IF HasTag(doc, {"internal"}) THEN Step(map, FALSE, {"internal"})
    ELSE IF Truthy(tag.comment)
    THEN IF ~Truthy(GetNamespaceNameForTag(tag)) /\ ~Truthy(StripLocal(tag.comment)) /\ ~tag.hasTypeExpression
         THEN Step(map, TRUE, {"threw"})
         ELSE SetTypeMember(FindNamespaces(CommentedTagNamespace(tag), TRUE, map, {}, DefaultWhenFound),
                            CommentedTagNamespace(tag), tag, doc, node)
    ELSE IF tag.hasTypeExpression
    THEN SetTypeEntry(FindNamespaces(GetNamespaceNameForTag(tag), TRUE, map, {}, TypeDefWhenFound(tag, doc, node)))
    ELSE Step(map, FALSE, {"dropped"})

RECURSIVE RegisterTypeTags(_, _, _, _)
RECURSIVE RegisterTypeTagsAfter(_, _, _, _)
RegisterTypeTagsAfter(first, tags, doc, node) ==
    IF first.threw THEN first ELSE Followed(first, RegisterTypeTags(first.map, tags, doc, node))

RegisterTypeTags(map, tags, doc, node) ==
    IF tags = <<>> THEN Step(map, FALSE, {})
    ELSE RegisterTypeTagsAfter(RegisterTypeTag(map, Head(tags), doc, node), Tail(tags), doc, node)

\* The condition without its middle conjunct: any generic doc block counts
IsImplicitCallbackOfAnyGeneric(doc, node) ==
    /\ HasTag(doc, {"template", "typeparam"})
    /\ ~(HasTag(doc, {"private"}) \/ node.isPrivateIdentifier)

\* The condition under which a member's doc block is taken for an implicit
\* callback type declaration
IsImplicitCallback(doc, node) ==
    LET hasTemplates == HasTag(doc, {"template", "typeparam"})
        hasTypeParams == hasTemplates /\ HasTag(doc, {"typeparam"})
    IN /\ hasTemplates
       /\ hasTypeParams \/ HasTag(doc, {"abstract"})
       /\ ~(HasTag(doc, {"private"}) \/ node.isPrivateIdentifier)

\* The callback tag built for a member: its type parameters are read from the
\* @typeParam tags, its parameters are the @param tags
SyntheticCallbackTag(doc) ==
    [tagName |-> "callback", fullName |-> Undefined, comment |-> <<>>,
     hasTypeExpression |-> TRUE, typeString |-> <<>>,
     typeParameters |-> [i \in 1..Len(SelectSeq(doc.tags, LAMBDA t : t.tagName = "typeparam")) |->
                            SelectSeq(doc.tags, LAMBDA t : t.tagName = "typeparam")[i].comment],
     parameters |-> SelectSeq(doc.tags, LAMBDA t : t.tagName = "param")]

\* {node: tag, source: node}, the tag wrapped in a doc block of its own that
\* ends with a private tag
SyntheticEntry(doc, node) ==
    Entry("undefined",
          [k |-> "tag", tag |-> SyntheticCallbackTag(doc),
           parent |-> Doc(<<SyntheticCallbackTag(doc), Flag("private")>>), synthetic |-> TRUE],
          node, FALSE, EmptyMap)

\* Storing the callback without the test !target?.has(name)
SetImplicitCallbackOverwriting(found, doc, node) ==
    LET hasTarget == found.value # Undefined /\ found.value.hasMembers
    IN IF found.threw THEN Step(found.map, TRUE, {"threw"})
       ELSE IF ~("static" \in node.modifiers \/ HasTag(doc, {"typeparam"})) THEN Step(found.map, FALSE, {"unneeded"})
       ELSE IF ~hasTarget THEN Step(found.map, FALSE, {"notarget"})
       ELSE Step(SetMember(found.map, Split(GetAllJSDocTags(node.parent, {"namespace", "alias"})[1].comment),
                           node.name, SyntheticEntry(doc, node)),
                 FALSE, {"synthetic"})

\* The callback is built only if (isStatic || hasTypeParams) && !target?.has(name),
\* and stored by target?.set(name, ...)
SetImplicitCallback(found, doc, node) ==
    LET hasTarget == found.value # Undefined /\ found.value.hasMembers
    IN IF found.threw THEN Step(found.map, TRUE, {"threw"})
       ELSE IF ~("static" \in node.modifiers \/ HasTag(doc, {"typeparam"})) THEN Step(found.map, FALSE, {"unneeded"})
       ELSE IF hasTarget /\ MapHas(found.value.members, node.name) THEN Step(found.map, FALSE, {"exists"})
       ELSE IF ~hasTarget THEN Step(found.map, FALSE, {"notarget"})
       ELSE Step(SetMember(found.map, Split(GetAllJSDocTags(node.parent, {"namespace", "alias"})[1].comment),
                           node.name, SyntheticEntry(doc, node)),
                 FALSE, {"synthetic"})

\* The second half of the loop over doc blocks: the implicit callback type
RegisterImplicitCallback(map, doc, node) ==
    IF ~IsImplicitCallback(doc, node) THEN Step(map, FALSE, {})
    ELSE SetImplicitCallback(FindNamespaces(node.parent, FALSE, map, {"namespace", "alias"}, DefaultWhenFound), doc, node)

RegisterImplicitCallbackAfter(tagged, doc, node) ==
    IF tagged.threw THEN tagged ELSE Followed(tagged, RegisterImplicitCallback(tagged.map, doc, node))

\* The body of the loop over the doc blocks of a node
ResolveDoc(map, doc, node) ==
    RegisterImplicitCallbackAfter(
        RegisterTypeTags(map, SelectSeq(doc.tags, LAMBDA t : t.tagName \in TypeTagNames), doc, node), doc, node)

RECURSIVE ResolveDocs(_, _, _)
RECURSIVE ResolveDocsAfter(_, _, _)
ResolveDocsAfter(first, docs, node) ==
    IF first.threw THEN first ELSE Followed(first, ResolveDocs(first.map, docs, node))

ResolveDocs(map, docs, node) ==
    IF docs = <<>> THEN Step(map, FALSE, {})
    ELSE ResolveDocsAfter(ResolveDoc(map, Head(docs), node), Tail(docs), node)

ResolveImplicitTypeDefs(map, node) == ResolveDocs(map, node.jsDoc, node)

(***************************************************************************)
(* The walked program: class declarations with their members, and other    *)
(* statements that carry doc blocks                                        *)
(***************************************************************************)
pA == Str("A")

pB == Str("B")

pAB == Dotted(pA, pB)

\* A keyword type node such as number
KeywordType(text) == [kind |-> "Keyword", text |-> text]

\* A class member before it is attached to its class
Member(kind, name, modifiers, isPrivateIdentifier, parameters, tags) ==
    [k |-> "member", kind |-> kind, name |-> name, modifiers |-> modifiers,
     isPrivateIdentifier |-> isPrivateIdentifier, parameters |-> parameters,
     jsDoc |-> IF tags = <<>> THEN <<>> ELSE <<Doc(tags)>>]

ClassNode(name, tags, members) ==
    [k |-> "class", name |-> name, modifiers |-> {}, isPrivateIdentifier |-> FALSE,
     jsDoc |-> IF tags = <<>> THEN <<>> ELSE <<Doc(tags)>>, members |-> members, parent |-> Undefined]

\* An element of an array literal: a string or a numeric literal
Literal(kind, text) == [kind |-> kind, text |-> text]

\* A variable statement  const x = ["x"]  under a doc block; declarations
\* holds the elements of the array each of its declarations assigns
StatementNode(tags) ==
    [k |-> "statement", name |-> <<>>, modifiers |-> {}, isPrivateIdentifier |-> FALSE,
     jsDoc |-> <<Doc(tags)>>, parent |-> Undefined,
     declarations |-> <<<<Literal("StringLiteral", "x")>>>>]

\* member.parent: the class the member belongs to (without its member list)
WithParent(member, class) ==
    [k |-> member.k, kind |-> member.kind, name |-> member.name, modifiers |-> member.modifiers,
     isPrivateIdentifier |-> member.isPrivateIdentifier, parameters |-> member.parameters,
     jsDoc |-> member.jsDoc,
     parent |-> [k |-> "class", name |-> class.name, jsDoc |-> class.jsDoc]]

\* constructor(s) documented @param {number} s
Ctor == Member("Constructor", <<>>, {}, FALSE, <<[name |-> Str("s")]>>, <<ParamTag(Str("s"), KeywordType("number"))>>)

\* The doc blocks a method B of the sample classes may carry
MethodTagLists ==
    { <<Flag("template"), Flag("abstract")>>,
      <<Flag("template"), Flag("abstract"), Flag("private")>>,
      <<SimpleTag("typeparam", Str("T"))>>,
      <<SimpleTag("typeparam", Str("T")), Flag("abstract")>>,
      <<Flag("abstract")>>,
      <<Flag("template")>> }

Method(tags, modifiers, isPrivateIdentifier) == Member("MethodDeclaration", pB, modifiers, isPrivateIdentifier, <<>>, tags)

Methods ==
    {Method(tags, modifiers, FALSE) : tags \in MethodTagLists, modifiers \in {{}, {"static"}}}
        \cup {Method(<<Flag("template"), Flag("abstract")>>, {"static"}, TRUE)}

ClassTagLists ==
    {<<>>} \cup {<<SimpleTag(t, p)>> : t \in {"namespace", "alias"}, p \in {pA, pAB}}

\* Class A is empty, class B has a documented constructor, and class A tagged
\* @namespace A may also hold one method B; class B may be the class of a
\* module, also one registered by its @alias B while its module names the
\* namespace A of a later @namespace tag
Classes ==
    {ClassNode(pA, tags, <<>>) : tags \in ClassTagLists}
        \cup {ClassNode(pB, tags, <<Ctor>>) : tags \in ClassTagLists}
        \cup {ClassNode(pA, <<SimpleTag("namespace", pA)>>, <<m>>) : m \in Methods}
        \cup {ClassNode(pB, <<SimpleTag("module", name)>> \o tags, <<Ctor>>) :
                  name \in {ModuleName, Str("n")}, tags \in {<<>>, <<SimpleTag("namespace", pAB)>>}}
        \cup {ClassNode(pB, <<SimpleTag("module", Str("n")), SimpleTag("alias", pB), SimpleTag("namespace", pA)>>, <<Ctor>>)}

TypeDef(fullName, comment, hasTypeExpression) == Tag("typedef", fullName, comment, hasTypeExpression, <<>>)

\* The type-defining tags of the sample program:
\*   @typedef {T} A            @typedef {T} A.B          @typedef {T} A~B
\*   @callback A.B~A           @enum {T} A~A             @enum {T}
\*   @typedef ~B               @typedef {A} ~B (the checker prints the type as A)
\*   @typedef A                @typedef {T} A~B~A
TypeTags ==
    { TypeDef(Identifier("A"), <<>>, TRUE),
      TypeDef(NamespaceName("A", Identifier("B")), <<>>, TRUE),
      TypeDef(Identifier("A"), <<"~", "B">>, TRUE),
      Tag("callback", NamespaceName("A", Identifier("B")), <<"~", "A">>, TRUE, <<>>),
      Tag("enum", Undefined, <<"A", "~", "A">>, TRUE, <<>>),
      Tag("enum", Undefined, <<>>, TRUE, <<>>),
      TypeDef(Undefined, <<"~", "B">>, FALSE),
      Tag("typedef", Undefined, <<"~", "B">>, TRUE, pA),
      TypeDef(Identifier("A"), <<>>, FALSE),
      TypeDef(Identifier("A"), <<"~", "B", "~", "A">>, TRUE) }

StatementTagLists ==
    {<<t>> : t \in TypeTags}
        \cup {<<t, Flag("internal")>> : t \in {TypeDef(Identifier("A"), <<>>, TRUE), TypeDef(Identifier("A"), <<"~", "B">>, TRUE)}}
        \cup {<<t, Flag("private")>> : t \in {TypeDef(Identifier("A"), <<"~", "B">>, TRUE)}}
        \cup {<<TypeDef(Identifier("A"), <<"~", "B">>, TRUE), TypeDef(Identifier("A"), <<"~", "A">>, TRUE)>>}

Statements == {StatementNode(tags) : tags \in StatementTagLists}

(***************************************************************************)
(* The visitor of ostensiblyTyped                                          *)
(***************************************************************************)
\* resolveImplicitTypeDefs on each member of a class, in order (the visitor
\* descends into the class right after handling it)
RECURSIVE VisitMembers(_, _, _)
RECURSIVE VisitMembersAfter(_, _, _)
VisitMembersAfter(first, members, class) ==
    IF first.threw THEN first ELSE Followed(first, VisitMembers(first.map, members, class))

VisitMembers(map, members, class) ==
    IF members = <<>> THEN Step(map, FALSE, {})
    ELSE VisitMembersAfter(ResolveImplicitTypeDefs(map, WithParent(Head(members), class)), Tail(members), class)

\* if (node.name.escapedText === defaultExport && !namespaces.has(defaultExport))
RegisterDefaultExport(found, node, export) ==
    IF found.threw THEN Step(found.map, TRUE, {"threw"})
    ELSE IF node.name = export /\ ~MapHas(found.map, export)
    THEN Step(MapSet(found.map, export, Entry("alias", node, Undefined, TRUE, EmptyMap)), FALSE, {"class", "export"})
    ELSE Step(found.map, FALSE, {"class"})

\* The class branch of the visitor, for the namespaces map
RegisterClass(map, node, export) ==
    RegisterDefaultExport(FindNamespaces(node, FALSE, map, {"namespace", "alias"}, ClassWhenFound), node, export)

VisitClassMembers(own, node) ==
    IF own.threw THEN own ELSE Followed(own, VisitMembers(own.map, node.members, node))

VisitClassDocs(registered, node) ==
    IF registered.threw THEN registered
    ELSE VisitClassMembers(Followed(registered, ResolveImplicitTypeDefs(registered.map, node)), node)

\* visitor(node) for a class declaration and the members below it
VisitClassNode(map, node, export) == VisitClassDocs(RegisterClass(map, node, export), node)

\* The class branch of the visitor, for the modules map (not reached when the
\* registration in the namespaces map threw)
RegisterModule(mods, map, node) ==
    IF FindNamespaces(node, FALSE, map, {"namespace", "alias"}, DefaultWhenFound).threw THEN mods
    ELSE FindNamespaces(node, FALSE, mods, {"module"}, ModuleWhenFound).map

(***************************************************************************)
(* Assembly of the declaration file                                        *)
(***************************************************************************)
VoidKeyword == KeywordType("void")

\* A type reference node; typeArguments is <<>> when the node has none
TypeReference(typeName, typeArguments, guessed) ==
    [kind |-> "TypeReference", typeName |-> typeName, typeArguments |-> typeArguments, guessed |-> guessed]

IsTypeReference(node) == "kind" \in DOMAIN node /\ node.kind = "TypeReference"

\* s.startsWith(prefix)
StartsWith(s, prefix) == Len(prefix) <= Len(s) /\ SubSeq(s, 1, Len(prefix)) = prefix

\* A type reference with the checker's answers for it: whether its type is the
\* error type (intrinsicName "error") and the node typeToTypeNode prints for it
CheckedReference(typeName, typeArguments, guessed, error) ==
    [kind |-> "TypeReference", typeName |-> typeName, typeArguments |-> typeArguments,
     guessed |-> guessed, error |-> error]

\* node.typeExpression of a tag whose declared type is type
TypeExpression(type) == [kind |-> "JSDocTypeExpression", type |-> type]

\* checker.getTypeFromTypeNode(node).intrinsicName === "error".  The checker's
\* answers travel with the node: a tag is no type node, which gives the error
\* type; a type expression has the type of the type it holds; a keyword has
\* its own type; a reference has the error type when it is marked so.
RECURSIVE IsErrorType(_)
IsErrorType(node) ==
    IF "kind" \notin DOMAIN node THEN TRUE
    ELSE IF node.kind = "JSDocTypeExpression" THEN IsErrorType(node.type)
    ELSE "error" \in DOMAIN node /\ node.error

\* checker.typeToTypeNode(type): any for the plain error type, the node the
\* reference carries as its guess, the keyword itself
RECURSIVE Guessed(_)
Guessed(node) ==
    IF "kind" \notin DOMAIN node THEN KeywordType("any")
    ELSE IF node.kind = "JSDocTypeExpression" THEN Guessed(node.type)
    ELSE IF "guessed" \in DOMAIN node /\ node.guessed # Undefined THEN node.guessed
    ELSE node

\* node.typeExpression ?? node.type.  A tag of the model holds the type of its
\* type expression in type.
Deeper(node) ==
    IF "kind" \notin DOMAIN node
    THEN IF "type" \in DOMAIN node THEN TypeExpression(node.type) ELSE Undefined
    ELSE IF node.kind = "JSDocTypeExpression" THEN node.type
    ELSE Undefined

\* A Promise around a type that is a Promise around the type
WrapInPromiseTwice(type) ==
    TypeReference(Str("Promise"), <<TypeReference(Str("Promise"), <<type>>, Undefined)>>, Undefined)

\* createTypeReferenceNode(createIdentifier("Promise"), [type])
WrapInPromise(type) == TypeReference(Str("Promise"), <<type>>, Undefined)

\* The condition under which a type reference is kept as a reference
IsUsefulReference(node) ==
    \/ HasTok(node.typeName, ".")
    \/ IsTypeReference(Guessed(node))
    \/ (Guessed(node) = KeywordType("any") /\ node.typeArguments # <<>>)

\* The type a node resolves to.  A type reference that is not kept falls
\* through to the default case of the switch.
RECURSIVE ResolveActualType(_, _)
ResolveActualType(node, isAsync) ==
    IF isAsync THEN WrapInPromise(ResolveActualType(node, FALSE))
    ELSE IF node = Undefined THEN VoidKeyword
    ELSE IF "kind" \in DOMAIN node /\ node.kind \in {"TypeOperator", "TypeQuery"} THEN node
    ELSE IF "kind" \in DOMAIN node /\ node.kind \in {"Union", "Intersection"}
    THEN [kind |-> node.kind, types |-> [i \in 1..Len(node.types) |-> ResolveActualType(node.types[i], FALSE)]]
    ELSE IF "kind" \in DOMAIN node /\ node.kind = "Array"
    THEN [kind |-> "Array", elementType |-> ResolveActualType(node.elementType, FALSE)]
    ELSE IF "kind" \in DOMAIN node /\ node.kind = "TypeReference" /\ IsUsefulReference(node)
    THEN TypeReference(IF IsTypeReference(Guessed(node)) THEN Guessed(node).typeName ELSE node.typeName,
                       [i \in 1..Len(node.typeArguments) |-> ResolveActualType(node.typeArguments[i], FALSE)],
                       Undefined)
    ELSE IF ~IsErrorType(node) THEN Guessed(node)
    ELSE ResolveActualType(Deeper(node), FALSE)

\* ts.isQualifiedName(tag.name): the name of a property-like tag is dotted
IsQualifiedName(name) == HasTok(name, ".")

\* resolveQualifiedName(name.left): the name up to its last "."
Left(name) ==
    SubSeq(name, 1, (CHOOSE i \in 1..Len(name) : name[i] = "." /\ \A j \in (i + 1)..Len(name) : name[j] # ".") - 1)

\* The tags that stay at this level: those without a dot and, below a
\* containing tag, those whose left part starts with its name
KeptTags(tags, name) ==
    SelectSeq(tags, LAMBDA tag : ~IsQualifiedName(tag.name) \/ (Truthy(name) /\ StartsWith(Left(tag.name), name)))

\* The tags of the list that are properties of a tag: their left part is its
\* name
ChildTags(tags, tag) == SelectSeq(tags, LAMBDA t : IsQualifiedName(t.name) /\ Left(t.name) = tag.name)

\* resolveUnderstructuredTags(tags, name); name is <<>> when not given.  A tag
\* with children gets the intersection of its type with a type literal of
\* its restructured children.
RECURSIVE ResolveUnderstructuredTags(_, _)
RECURSIVE RestructuredTag(_, _)
RestructuredTag(tag, children) ==
    IF children = <<>> THEN tag
    ELSE [tag EXCEPT !.type =
             [kind |-> "Intersection",
              types |-> <<tag.type, [kind |-> "JSDocTypeLiteral",
                                     jsDocPropertyTags |-> ResolveUnderstructuredTags(children, tag.name)]>>]]

ResolveUnderstructuredTags(tags, name) ==
    [i \in 1..Len(KeptTags(tags, name)) |->
        RestructuredTag(KeptTags(tags, name)[i], ChildTags(tags, KeptTags(tags, name)[i]))]

\* The type a type-defining tag of the sample declares: {Object}, which the
\* checker takes for any, or {A}, which it prints as A
TypeExpressionType(tag) ==
    IF "type" \in DOMAIN tag THEN tag.type
    ELSE IF tag.tagName = "callback" \/ ~tag.hasTypeExpression THEN Undefined
    ELSE IF tag.typeString = <<>> THEN KeywordType("any")
    ELSE TypeReference(tag.typeString, <<>>, TypeReference(tag.typeString, <<>>, Undefined))

\* The first of a list of tags, Undefined when the list is empty
FirstTag(tags) == IF tags = <<>> THEN Undefined ELSE tags[1]

UnionType(types) == [kind |-> "Union", types |-> types]

\* node.kind, for the nodes that have one
KindOf(node) == IF "kind" \in DOMAIN node THEN node.kind ELSE "none"

\* isOptionalType(tag): the tag's name is in brackets, or its type is an
\* optional type  {T=}
IsOptionalType(tag) ==
    \/ "isBracketed" \in DOMAIN tag /\ tag.isBracketed
    \/ "type" \in DOMAIN tag /\ KindOf(tag.type) = "JSDocOptionalType"

\* name.right of a dotted name, the name itself otherwise
Right(name) == IF IsQualifiedName(name) THEN SubSeq(name, Len(Left(name)) + 2, Len(name)) ELSE name

IntersectionOfFirstTwo(first, second) == [kind |-> "Intersection", types |-> <<first, second>>]

\* generateTypeNode(checker, node) for a tag, for a type, or for nothing.  A
\* tag whose type is an intersection gives the intersection of the first
\* member as declared and the second generated; a type literal is declared
\* property by property (generateTypeDefType); every other type is resolved.
RECURSIVE GenerateTypeNode(_)
GeneratePropertyDeclaration(tag) ==
    [d |-> "property", name |-> Right(tag.name), questionToken |-> IsOptionalType(tag),
     type |-> GenerateTypeNode(tag)]

GenerateTypeLiteral(type) ==
    IF "jsDocPropertyTags" \in DOMAIN type
    THEN [kind |-> "TypeLiteral",
          members |-> [i \in 1..Len(type.jsDocPropertyTags) |-> GeneratePropertyDeclaration(type.jsDocPropertyTags[i])]]
    ELSE ResolveActualType(type, FALSE)

GenerateTypeOfTag(type) ==
    IF type = Undefined THEN ResolveActualType(Undefined, FALSE)
    ELSE IF KindOf(type) = "Intersection"
    THEN IntersectionOfFirstTwo(type.types[1], GenerateTypeNode(type.types[2]))
    ELSE GenerateTypeLiteral(type)

GenerateTypeNode(node) ==
    IF node = Undefined THEN ResolveActualType(Undefined, FALSE)
    ELSE IF "tagName" \in DOMAIN node THEN GenerateTypeOfTag(TypeExpressionType(node))
    ELSE GenerateTypeLiteral(node)

\* A parameter is a rest parameter  ...p
IsRest(param) == "dotDotDotToken" \in DOMAIN param /\ param.dotDotDotToken

\* generateArrayTypeWrapper(type, isArrayType)
GenerateArrayTypeWrapper(type, isArrayType) ==
    IF isArrayType THEN TypeReference(Str("Array"), <<type>>, Undefined) ELSE type

\* The type of one tag among several of a parameter: for a rest parameter
\* an array type stands for its element type
VariadicType(type, isRest) == IF isRest /\ KindOf(type) = "Array" THEN type.elementType ELSE type

\* The @param tags that are taken for a parameter: those of the function
\* whose name starts with the parameter's name, restructured
ParameterTags(node, param) ==
    ResolveUnderstructuredTags(
        SelectSeq(GetAllJSDocTags(node, {"param"}), LAMBDA tag : StartsWith(tag.name, param.name)), <<>>)

\* The declaration of one parameter from the tags taken for it
ParameterDeclaration(param, tags) ==
    [name |-> param.name,
     questionToken |-> (\E j \in 1..Len(tags) : IsOptionalType(tags[j]))
                          \/ ("questionToken" \in DOMAIN param /\ param.questionToken),
     type |-> GenerateArrayTypeWrapper(
                  IF Len(tags) > 1
                  THEN UnionType([j \in 1..Len(tags) |-> VariadicType(GenerateTypeNode(tags[j]), IsRest(param))])
                  ELSE GenerateTypeNode(FirstTag(tags)),
                  IsRest(param))]

GenerateParameterDeclarations(node) ==
    [i \in 1..Len(node.parameters) |-> ParameterDeclaration(node.parameters[i], ParameterTags(node, node.parameters[i]))]

GenerateConstructorDeclaration(node) == <<[d |-> "constructor", parameters |-> GenerateParameterDeclarations(node)]>>

NeverKeyword == KeywordType("never")

\* typeExpression.type of an @overload or @callback tag: the @returns tag of
\* its signature
SignatureType(tag) == IF "returns" \in DOMAIN tag THEN tag.returns ELSE Undefined

\* The method declaration of one @overload tag of a doc block
OverloadDeclaration(node, doc, tag) ==
    [d |-> "method", name |-> node.name, modifiers |-> node.modifiers \ {"async"},
     typeParameters |-> Len(SelectSeq(doc.tags, LAMBDA t : t.tagName = "template")),
     parameters |-> <<>>, overload |-> TRUE,
     type |-> IF HasTag(doc, {"throws"}) THEN NeverKeyword
              ELSE ResolveActualType(SignatureType(tag), "async" \in node.modifiers)]

\* The declarations of the @overload tags of a node, in the order of its doc
\* blocks (the overloads of the sample take no parameters)
RECURSIVE OverloadDeclarations(_, _)
OverloadDeclarations(node, docs) ==
    IF docs = <<>> THEN <<>>
    ELSE [i \in 1..Len(SelectSeq(Head(docs).tags, LAMBDA t : t.tagName = "overload")) |->
             OverloadDeclaration(node, Head(docs), SelectSeq(Head(docs).tags, LAMBDA t : t.tagName = "overload")[i])]
         \o OverloadDeclarations(node, Tail(docs))

\* The last branch of generateMethodDeclaration: the overloads, then the method
DeclareMethod(node, templates, overloads) ==
    overloads \o
        <<[d |-> "method", name |-> node.name, modifiers |-> node.modifiers \ {"async"},
           typeParameters |-> IF overloads = <<>> THEN templates ELSE 0,
           parameters |-> GenerateParameterDeclarations(node), overload |-> FALSE,
           type |-> IF GetAllJSDocTags(node, {"throws"}) # <<>> THEN NeverKeyword
                    ELSE ResolveActualType(FirstTag(GetAllJSDocTags(node, {"returns"})), "async" \in node.modifiers)]>>

\* A method is declared as a property when it has a @type tag, or is static,
\* abstract and generic; otherwise as a method after its overloads.  Methods
\* of the walked programs are no accessors and carry no implements tag.
GenerateMethodDeclaration(node) ==
    IF GetAllJSDocTags(node, {"type"}) # <<>>
    THEN <<[d |-> "property", name |-> node.name, modifiers |-> node.modifiers \ {"async"},
            type |-> ResolveActualType(GetAllJSDocTags(node, {"type"})[1], FALSE)]>>
    ELSE IF HasTag(Doc(FlattenTags(node.jsDoc)), {"abstract"}) /\ GetAllJSDocTags(node, {"template"}) # <<>>
               /\ "static" \in node.modifiers
    THEN <<[d |-> "property", name |-> node.name, modifiers |-> node.modifiers \ {"async"},
            type |-> TypeReference(Dotted(node.parent.name, node.name),
                                   [i \in 1..Len(GetAllJSDocTags(node, {"template"})) |-> KeywordType("any")], Undefined)]>>
    ELSE DeclareMethod(node, Len(GetAllJSDocTags(node, {"template"})), OverloadDeclarations(node, node.jsDoc))

GenerateMemberDeclaration(node) ==
    CASE node.kind = "Constructor" -> GenerateConstructorDeclaration(node)
      [] node.kind = "MethodDeclaration" -> GenerateMethodDeclaration(node)
      [] OTHER -> <<node>>

\* escapedText.toLowerCase() of a tag name: the one mixed-case spelling among
\* the tag names of the model is inheritDoc
ToLowerCase(tagName) == IF tagName = "inheritDoc" THEN "inheritdoc" ELSE tagName

\* isJSDocInternalTag(t) || isJSDocInheritDocTag(t) holds of no tag of m
IsDocumentedMember(m) ==
    SelectSeq(FlattenTags(m.jsDoc), LAMBDA t : ToLowerCase(t.tagName) \in {"internal", "inheritdoc"}) = <<>>

\* The filter with the test for tags applied to named members only
FilterMembersNamed(type, members) ==
    SelectSeq(members, LAMBDA m :
        \/ m.name = <<>>
        \/ /\ ~m.isPrivateIdentifier
           /\ IF type = "namespace"
              THEN "initializer" \notin DOMAIN m \/ m.name # m.initializer \/ GetAllJSDocTags(m, {"type"}) # <<>>
              ELSE "private" \notin m.modifiers
           /\ IsDocumentedMember(m))

FilterMembers(type, members) ==
    SelectSeq(members, LAMBDA m :
        /\ \/ m.name = <<>>
           \/ /\ ~m.isPrivateIdentifier
              /\ IF type = "namespace"
                 THEN "initializer" \notin DOMAIN m \/ m.name # m.initializer \/ GetAllJSDocTags(m, {"type"}) # <<>>
                 ELSE "private" \notin m.modifiers
        /\ IsDocumentedMember(m))

RECURSIVE GenerateMemberDeclarations(_, _)
GenerateMemberDeclarations(members, class) ==
    IF members = <<>> THEN <<>>
    ELSE GenerateMemberDeclaration(WithParent(Head(members), class)) \o GenerateMemberDeclarations(Tail(members), class)

\* new Map(entries): the entries set one after another
RECURSIVE MapFromEntries(_)
MapFromEntries(entries) ==
    IF entries = <<>> THEN EmptyMap
    ELSE MapSet(MapFromEntries(SubSeq(entries, 1, Len(entries) - 1)),
                entries[Len(entries)].k, entries[Len(entries)].v)

MapValues(m) == [i \in 1..Len(m) |-> m[i].v]

\* The key a heritage type is stored under: the identifier it names, or the
\* last name of a property access, or undefined for any other expression
HeritageKey(type) ==
    IF type.expression.kind = "Identifier" THEN type.expression.escapedText
    ELSE IF "name" \in DOMAIN type.expression THEN type.expression.name
    ELSE Undefined

\* node.heritageClauses?.find(isExtendsClause)?.types ?? []
ExplicitExtendsTypes(node) ==
    IF "heritageClauses" \notin DOMAIN node THEN <<>>
    ELSE IF SelectSeq(node.heritageClauses, LAMBDA clause : clause.token = "extends") = <<>> THEN <<>>
    ELSE SelectSeq(node.heritageClauses, LAMBDA clause : clause.token = "extends")[1].types

\* tag.class of the tags of the given name
TagClasses(node, tagName) ==
    [i \in 1..Len(GetAllJSDocTags(node, {tagName})) |-> GetAllJSDocTags(node, {tagName})[i].class]

\* The types that may be extended: the explicit ones that are constructable
\* (for an interface: that are not), then the documented ones
ExtendedTypes(node, isInterface) ==
    SelectSeq(ExplicitExtendsTypes(node), LAMBDA type : type.isConstructable # isInterface)
        \o TagClasses(node, "extends")

HeritageClause(token, types) == [token |-> token, types |-> types]

\* The clauses with every extended type listed, explicit and documented
GenerateClassHeritageClausesListed(node, isInterface) ==
    <<HeritageClause("extends", ExtendedTypes(node, isInterface)),
      HeritageClause("implements", TagClasses(node, "implements"))>>

GenerateClassHeritageClauses(node, isInterface) ==
    <<HeritageClause("extends",
          MapValues(MapFromEntries([i \in 1..Len(ExtendedTypes(node, isInterface)) |->
              [k |-> HeritageKey(ExtendedTypes(node, isInterface)[i]), v |-> ExtendedTypes(node, isInterface)[i]]]))),
      HeritageClause("implements", TagClasses(node, "implements"))>>

\* The clauses that have types
NonEmptyClauses(clauses) == SelectSeq(clauses, LAMBDA clause : clause.types # <<>>)

\* An interface with the clauses generated for the class itself
GenerateInterfaceDeclarationAsClass(node) ==
    IF \E i \in 1..Len(ExplicitExtendsTypes(node)) : ~ExplicitExtendsTypes(node)[i].isConstructable
    THEN <<[d |-> "interface", name |-> node.name,
            heritageClauses |-> NonEmptyClauses(GenerateClassHeritageClauses(node, FALSE))]>>
    ELSE <<>>

\* generateInterfaceDeclaration: an interface of the class's name when one of
\* the explicitly extended types is not constructable
GenerateInterfaceDeclaration(node) ==
    IF \E i \in 1..Len(ExplicitExtendsTypes(node)) : ~ExplicitExtendsTypes(node)[i].isConstructable
    THEN <<[d |-> "interface", name |-> node.name,
            heritageClauses |-> NonEmptyClauses(GenerateClassHeritageClauses(node, TRUE))]>>
    ELSE <<>>

GenerateClassDeclaration(node, type) ==
    IF FilterMembers(type, node.members) = <<>> THEN <<>>
    ELSE GenerateInterfaceDeclaration(node)
             \o <<[d |-> "class", name |-> node.name,
                   heritageClauses |-> NonEmptyClauses(GenerateClassHeritageClauses(node, FALSE)),
                   members |-> GenerateMemberDeclarations(FilterMembers(type, node.members), node)]>>

GenerateTypeDefType(tag) == ResolveActualType(TypeExpressionType(tag), FALSE)

\* createLiteralTypeNode for each literal of a list: numeric literals stay
\* numeric, every other literal becomes a string literal of the same text
LiteralTypes(literals) ==
    [i \in 1..Len(literals) |->
        [kind |-> "LiteralType",
         literal |-> Literal(IF literals[i].kind = "NumericLiteral" THEN "NumericLiteral" ELSE "StringLiteral",
                             literals[i].text)]]

\* The arrays an enum's values are read from: the initializer of a property
\* assignment, or those of the declarations of a variable statement
EnumInitializers(source) ==
    IF source.k = "propertyAssignment" THEN <<source.elements>> ELSE source.declarations

\* flatMap over the declarations: the literal types themselves for a single
\* declaration, one union per declaration for several
RECURSIVE FlatMapEnumTypes(_, _)
FlatMapEnumTypes(initializers, several) ==
    IF initializers = <<>> THEN <<>>
    ELSE (IF several THEN <<UnionType(LiteralTypes(Head(initializers)))>> ELSE LiteralTypes(Head(initializers)))
             \o FlatMapEnumTypes(Tail(initializers), several)

\* An enum whose only value is declared as the bare literal type
GenerateEnumTypeUnwrapping(tag, source) ==
    IF Len(EnumInitializers(source)) = 1 /\ Len(EnumInitializers(source)[1]) = 1
    THEN LiteralTypes(EnumInitializers(source)[1])[1]
    ELSE UnionType(FlatMapEnumTypes(EnumInitializers(source), Len(EnumInitializers(source)) > 1))

\* The union of an enum's values: those of the union its tag declares, or
\* else the elements of the arrays its source assigns
GenerateEnumType(tag, source) ==
    IF "type" \in DOMAIN tag /\ tag.type.kind = "Union"
    THEN UnionType(LiteralTypes([i \in 1..Len(tag.type.types) |-> tag.type.types[i].literal]))
    ELSE UnionType(FlatMapEnumTypes(EnumInitializers(source), Len(EnumInitializers(source)) > 1))

GenerateCallbackType(tag, source) ==
    [kind |-> "FunctionType",
     typeParameters |-> IF "typeParameters" \in DOMAIN tag THEN tag.typeParameters ELSE <<>>,
     parameters |-> IF "parameters" \in DOMAIN tag
                    THEN [i \in 1..Len(tag.parameters) |->
                             [name |-> tag.parameters[i].name, type |-> ResolveActualType(tag.parameters[i].type, FALSE)]]
                    ELSE <<>>,
     type |-> ResolveActualType(SignatureType(tag), "async" \in source.modifiers)]

GenerateTypeDeclaration(tag, source) ==
    CASE tag.tagName = "typedef" -> GenerateTypeDefType(tag)
      [] tag.tagName = "enum" -> GenerateEnumType(tag, source)
      [] tag.tagName = "callback" -> GenerateCallbackType(tag, source)

\* Whether generating the declarations of one entry throws: a kind on an entry
\* whose node is not a class (node.members is undefined), or an enum whose
\* source assigns no array
EntryThrows(entry) ==
    IF entry.type # "undefined" THEN entry.node.k # "class"
    ELSE /\ entry.node # Undefined
         /\ entry.node.tag.tagName = "enum"
         /\ ~("type" \in DOMAIN entry.node.tag /\ entry.node.tag.type.kind = "Union")
         /\ entry.source.k # "propertyAssignment"
         /\ "declarations" \notin DOMAIN entry.source

\* The result of generating declarations: the list, and whether it threw
Declared(decls, threw) == [decls |-> decls, threw |-> threw]

\* The declarations of one entry, given those of its members
GenerateEntryDeclarations(name, entry, nested) ==
    IF EntryThrows(entry) \/ nested.threw THEN Declared(<<>>, TRUE)
    ELSE IF entry.type # "undefined"
    THEN Declared(GenerateClassDeclaration(entry.node, entry.type)
                      \o (IF entry.hasMembers /\ entry.members # <<>>
                          THEN <<[d |-> "namespace", name |-> name, body |-> nested.decls]>>
                          ELSE <<>>),
                  FALSE)
    ELSE IF entry.node # Undefined
    THEN Declared(<<[d |-> "type", name |-> name, exported |-> ~HasTag(entry.node.parent, {"private"}),
                     type |-> GenerateTypeDeclaration(entry.node.tag, entry.source)]>>, FALSE)
    ELSE Declared(<<>>, FALSE)

\* Array.prototype.flat over the entries: a throw anywhere ends the generation
Flat(first, rest) ==
    IF first.threw \/ rest.threw THEN Declared(<<>>, TRUE) ELSE Declared(first.decls \o rest.decls, FALSE)

\* The declarations of a members map, in the order of its keys; the members
\* of an entry are generated only when the entry has a kind
RECURSIVE GenerateNamespaceDeclarations(_)
GenerateNamespaceDeclarations(members) ==
    IF members = <<>> THEN Declared(<<>>, FALSE)
    ELSE Flat(GenerateEntryDeclarations(Head(members).k, Head(members).v,
                  IF Head(members).v.type # "undefined" /\ Head(members).v.hasMembers
                  THEN GenerateNamespaceDeclarations(Head(members).v.members)
                  ELSE Declared(<<>>, FALSE)),
              GenerateNamespaceDeclarations(Tail(members)))

\* members is undefined (hasMembers = FALSE) or a Map
GenerateModuleExports(export, hasMembers, members) ==
    IF ~hasMembers THEN <<>>
    ELSE [i \in 1..Len(members) |-> [d |-> "import", name |-> members[i].k, from |-> Dotted(export, members[i].k)]]
             \o (IF members # <<>> THEN <<[d |-> "export", names |-> MapKeys(members)]>> ELSE <<>>)
             \o <<[d |-> "exportDefault", name |-> export]>>

\* The result of generating the file: the namespaces map after it (findNamespaces
\* works on it), the declarations, and whether generation threw
File(map, decls, threw) == [map |-> map, decls |-> decls, threw |-> threw]

\* One alias module declaration before those of the modules after it
PrependAlias(name, namespace, found, export, rest) ==
    File(rest.map,
         <<[d |-> "module", name |-> name,
            body |-> <<[d |-> "import", name |-> export, from |-> ModuleName]>>
                         \o GenerateModuleExports(namespace, found.value.hasMembers, found.value.members)]>>
             \o rest.decls,
         rest.threw)

\* The alias module declarations generated before the primary one; looking up
\* each module's namespace goes through findNamespaces on the namespaces map,
\* and a module without a namespace name throws
RECURSIVE GenerateModuleAliases(_, _, _)
RECURSIVE GenerateModuleAliasesAfter(_, _, _, _)
GenerateModuleAliasesAfter(found, mods, export, module) ==
    IF found.threw THEN File(found.map, <<>>, TRUE)
    ELSE PrependAlias(module.k, module.v, found, export, GenerateModuleAliases(mods, found.map, export))

GenerateModuleAliases(mods, map, export) ==
    IF mods = <<>> THEN File(map, <<>>, FALSE)
    ELSE IF Head(mods).k = ModuleName THEN GenerateModuleAliases(Tail(mods), map, export)
    ELSE IF ~Truthy(Head(mods).v) THEN File(map, <<>>, TRUE)
    ELSE GenerateModuleAliasesAfter(FindNamespaces(Head(mods).v, TRUE, map, {}, DefaultWhenFound),
                                    Tail(mods), export, Head(mods))

\* namespaces.get(defaultExport)?.members
DefaultExportMembers(map, export) ==
    IF MapHas(map, export) THEN MapGet(map, export) ELSE Entry("undefined", Undefined, Undefined, FALSE, EmptyMap)

\* The primary module declaration after the alias modules
GeneratePrimaryModule(aliases, body, top, export) ==
    IF aliases.threw \/ body.threw THEN File(aliases.map, <<>>, TRUE)
    ELSE File(aliases.map,
              aliases.decls \o <<[d |-> "module", name |-> ModuleName,
                                  body |-> GenerateModuleExports(export, top.hasMembers, top.members) \o body.decls]>>,
              FALSE)

GenerateModules(aliases, export) ==
    GeneratePrimaryModule(aliases, GenerateNamespaceDeclarations(aliases.map),
                          DefaultExportMembers(aliases.map, export), export)

GenerateDeclarationFile(mods, map, export) == GenerateModules(GenerateModuleAliases(mods, map, export), export)

(***************************************************************************)
(* The run: the visitor walks the nodes of the program one by one, then    *)
(* the declaration file is generated                                       *)
(***************************************************************************)
\* No function is being exercised on its own
NoCall == [fn |-> "none"]

\* No plugin has been created
NoPlugin == [name |-> "none"]

Init ==
    /\ namespaces = EmptyMap
    /\ modules = EmptyMap
    /\ defaultExport \in {pA, pB}
    /\ status = "running"
    /\ output = <<>>
    /\ visited = 0
    /\ last = [node |-> "none", events |-> {}]
    /\ call = NoCall
    /\ generator = NoPlugin
    /\ outputPlugin = NoPlugin

\* The visitor has handled one node
Visited(step, kind) ==
    /\ namespaces' = step.map
    /\ status' = IF step.threw THEN "failed" ELSE "running"
    /\ visited' = visited + 1
    /\ last' = [node |-> kind, events |-> step.events]

VisitClass(classes, bound) ==
    \E node \in classes :
        /\ status = "running"
        /\ visited < bound
        /\ Visited(VisitClassNode(namespaces, node, defaultExport), "class")
        /\ modules' = RegisterModule(modules, namespaces, node)
        /\ UNCHANGED <<defaultExport, output, call, generator, outputPlugin>>

VisitStatement(statements, bound) ==
    \E node \in statements :
        /\ status = "running"
        /\ visited < bound
        /\ Visited(ResolveImplicitTypeDefs(namespaces, node), "statement")
        /\ UNCHANGED <<modules, defaultExport, output, call, generator, outputPlugin>>

\* The file has been generated, or generating it threw
Generated(file) ==
    /\ namespaces' = file.map
    /\ output' = file.decls
    /\ status' = IF file.threw THEN "failed" ELSE "done"
    /\ last' = [node |-> "file", events |-> IF file.threw THEN {"threw"} ELSE {}]

\* The last statement of ostensiblyTyped: generate the file and print it
Generate ==
    /\ status = "running"
    /\ Generated(GenerateDeclarationFile(modules, namespaces, defaultExport))
    /\ UNCHANGED <<modules, defaultExport, visited, call, generator, outputPlugin>>

Next ==
    \/ VisitClass(Classes, MaxNodes)
    \/ VisitStatement(Statements, MaxNodes)
    \/ Generate

Spec == Init /\ [][Next]_vars
(***************************************************************************)
(* Properties                                                              *)
(***************************************************************************)
\* Every entry of a namespace tree
RECURSIVE EntriesOf(_)
EntriesOf(map) ==
    UNION {{map[i].v} \cup (IF map[i].v.hasMembers THEN EntriesOf(map[i].v.members) ELSE {}) : i \in 1..Len(map)}

\* The entry at a path of the tree, Undefined when there is none
RECURSIVE Lookup(_, _)
Lookup(map, namespace) ==
    IF namespace = <<>> \/ ~MapHas(map, Head(namespace)) THEN Undefined
    ELSE IF Len(namespace) = 1 THEN MapGet(map, Head(namespace))
    ELSE IF ~MapGet(map, Head(namespace)).hasMembers THEN Undefined
    ELSE Lookup(MapGet(map, Head(namespace)).members, Tail(namespace))

\* The path a class is registered at: the comment of its first @namespace or
\* @alias tag, <<>> when it has none
ClassPath(class) ==
    IF GetAllJSDocTags(class, {"namespace", "alias"}) = <<>> THEN <<>>
    ELSE Split(GetAllJSDocTags(class, {"namespace", "alias"})[1].comment)

ClassKind(class) == GetAllJSDocTags(class, {"namespace", "alias"})[1].tagName

\* The namespace declarations of the primary module of the generated file
MainBody(file) ==
    SelectSeq(file[Len(file)].body, LAMBDA decl : decl.d \in {"class", "namespace", "type"})

IsSequencePrefix(s, t) == Len(s) <= Len(t) /\ SubSeq(t, 1, Len(s)) = s

\* The names of a map and of the maps below it keep their places from one tree
\* to the next, and new names come after them
RECURSIVE KeysKeepPlace(_, _)
KeysKeepPlace(old, new) ==
    /\ IsSequencePrefix(MapKeys(old), MapKeys(new))
    /\ \A i \in 1..Len(old) :
          (old[i].v.hasMembers /\ new[i].v.hasMembers) => KeysKeepPlace(old[i].v.members, new[i].v.members)

\* What the entries of a map are declared as, in the order of the map's names
RECURSIVE Outline(_)
Outline(map) ==
    IF map = <<>> THEN <<>>
    ELSE (IF Head(map).v.type # "undefined"
          THEN (IF FilterMembers(Head(map).v.type, Head(map).v.node.members) # <<>>
                THEN <<[d |-> "class", name |-> Head(map).v.node.name]>> ELSE <<>>)
                   \o (IF Head(map).v.hasMembers /\ Head(map).v.members # <<>>
                       THEN <<[d |-> "namespace", name |-> Head(map).k]>> ELSE <<>>)
          ELSE IF Head(map).v.node # Undefined THEN <<[d |-> "type", name |-> Head(map).k]>>
          ELSE <<>>)
             \o Outline(Tail(map))

\* The declarations follow the order of the names of the map they come from,
\* at every level of nesting
RECURSIVE InKeyOrder(_, _)
InKeyOrder(decls, map) ==
    /\ [i \in 1..Len(decls) |-> [d |-> decls[i].d, name |-> decls[i].name]] = Outline(map)
    /\ \A i \in 1..Len(decls) :
          decls[i].d = "namespace" => InKeyOrder(decls[i].body, MapGet(map, decls[i].name).members)

\* A declaration of class B with constructor(s: number)
IsCtorClassDeclaration(decl, name) ==
    /\ decl.d = "class"
    /\ decl.name = name
    /\ \E k \in 1..Len(decl.members) :
          decl.members[k] = [d |-> "constructor",
                             parameters |-> <<[name |-> Str("s"), questionToken |-> FALSE, type |-> KeywordType("number")]>>]

\* C1: once the file is generated, every class with a documented constructor
\* that is registered one level below a top-level name (@namespace A.B) is
\* declared, with its constructor parameter s: number, inside a namespace
\* declaration named after that top-level name -- also when the top-level
\* entry is only an intermediate created on the way.
C1_NestedClassEmitted ==
    status = "done" =>
        \A i \in 1..Len(namespaces) : namespaces[i].v.hasMembers =>
            \A j \in 1..Len(namespaces[i].v.members) :
                LET inner == namespaces[i].v.members[j].v
                IN (/\ inner.type # "undefined"
                    /\ inner.node.k = "class"
                    /\ \E k \in 1..Len(inner.node.members) : inner.node.members[k] = Ctor)
                   => \E n \in 1..Len(MainBody(output)) :
                         /\ MainBody(output)[n].d = "namespace"
                         /\ MainBody(output)[n].name = namespaces[i].k
                         /\ \E m \in 1..Len(MainBody(output)[n].body) :
                               IsCtorClassDeclaration(MainBody(output)[n].body[m], inner.node.name)

\* C2: in every step the names of every members map keep their places (a name
\* registered again or overwritten does not move, new names go last), and the
\* generated file declares the entries of every members map in the order of
\* its names.
C2_SiblingsInRegistrationOrder ==
    [][/\ KeysKeepPlace(namespaces, namespaces')
       /\ status' = "done" => InKeyOrder(MainBody(output'), namespaces')]_vars

\* Two names at the top level, the first of them registered again by a second
\* class, and the file generated
C2_Witness ==
    /\ status = "done"
    /\ Len(namespaces) >= 2
    /\ namespaces[1].v.type # "undefined"
    /\ namespaces[1].v.source # Undefined
    /\ namespaces[1].v.source # namespaces[1].v.node
    /\ Len(MainBody(output)) >= 2

\* C3: while the visitor runs, findNamespaces on any dotted path reaches the
\* leaf without failing: every entry it has to descend through has a members
\* map.
C3_EveryPathDescends ==
    status = "running" =>
        \A p \in Paths : ~FindNamespaces(p, TRUE, namespaces, {}, DefaultWhenFound).threw

\* The second of two resolutions of the same name gives the same entry and
\* leaves the tree as the first left it
ResolvedAgain(first, second) ==
    /\ ~second.threw
    /\ second.value = first.value
    /\ second.map = first.map

ResolveTwice(p, first) ==
    first.threw \/ ResolvedAgain(first, FindNamespaces(p, TRUE, first.map, {}, DefaultWhenFound))

\* C4: in every reachable tree, resolving a dotted name with findNamespaces
\* (no whenFound callback) and resolving it again returns the same entry, and
\* the second call adds no name and changes no entry.
C4_ResolveTwiceSame ==
    \A p \in Paths : ResolveTwice(p, FindNamespaces(p, TRUE, namespaces, {}, DefaultWhenFound))

\* The name A was resolved twice by the visitor (two tags A~B and A~A of one
\* doc block), the first time creating it, and a name not yet in the tree
\* remains to be resolved
C4_Witness ==
    /\ MapHas(namespaces, pA)
    /\ MapGet(namespaces, pA).type = "undefined"
    /\ MapGet(namespaces, pA).hasMembers
    /\ Len(MapGet(namespaces, pA).members) = 2
    /\ \E p \in Paths : FindNamespaces(p, TRUE, namespaces, {}, DefaultWhenFound).map # namespaces

\* The visitor has just handled class c without failing, and an earlier class
\* had registered the path c is tagged with
ReRegisteredBy(class) ==
    /\ last'.node = "class"
    /\ status' = "running"
    /\ ClassPath(class) # <<>>
    /\ Lookup(namespaces, ClassPath(class)) # Undefined
    /\ Lookup(namespaces, ClassPath(class)).type # "undefined"
    /\ Lookup(namespaces, ClassPath(class)).node.k = "class"
    /\ namespaces' = VisitClassNode(namespaces, class, defaultExport).map

\* C5 as amended: when a class is registered at a path an earlier class
\* registered, the entry keeps the kind and the anchor node of the first
\* registration; only its source becomes the second class.
C5_FirstRegistrationKept ==
    [][\A class \in Classes : ReRegisteredBy(class) =>
          /\ Lookup(namespaces', ClassPath(class)).type = Lookup(namespaces, ClassPath(class)).type
          /\ Lookup(namespaces', ClassPath(class)).node = Lookup(namespaces, ClassPath(class)).node
          /\ Lookup(namespaces', ClassPath(class)).source = class]_vars

\* C5 as stated: when a class is registered at a path an earlier class
\* registered, the entry carries the kind and the anchor node of the second
\* registration (last writer wins).
C5_LastWriterWins ==
    [][\A class \in Classes : ReRegisteredBy(class) =>
          /\ Lookup(namespaces', ClassPath(class)).type = ClassKind(class)
          /\ Lookup(namespaces', ClassPath(class)).node = class]_vars

\* A class entry that a second, different class has registered again, with
\* another kind of tag
C5_Witness ==
    /\ last.node = "class"
    /\ \E entry \in EntriesOf(namespaces) :
          /\ entry.type # "undefined"
          /\ entry.node.k = "class"
          /\ entry.source # Undefined
          /\ entry.source # entry.node
          /\ ClassKind(entry.source) # entry.type

\* C6: every entry of the tree whose kind is set has a members map.
C6_KindHasMembers ==
    \A entry \in EntriesOf(namespaces) : entry.type # "undefined" => entry.hasMembers

\* The owning class's namespace has an entry under the member's name
NameTaken(map, class, member) ==
    /\ Lookup(map, ClassPath(class)) # Undefined
    /\ Lookup(map, ClassPath(class)).hasMembers
    /\ MapHas(Lookup(map, ClassPath(class)).members, member.name)

\* Processing a member's doc block for an implicit callback leaves a tree in
\* which the member's name is taken as it is
NameTakenKept(registered, class, member) ==
    (~registered.threw /\ NameTaken(registered.map, class, member)) =>
        \A j \in 1..Len(member.jsDoc) :
            RegisterImplicitCallback(registered.map, member.jsDoc[j], WithParent(member, class)).map = registered.map

\* C7: for every class of the program visited in any reachable tree, if the
\* class's namespace already has an entry under a member's name when the
\* member's doc block is processed, the tree is the same afterwards: the
\* entry is not replaced and none is added.
C7_FirstRegistrationWins ==
    \A class \in Classes : \A i \in 1..Len(class.members) :
        NameTakenKept(RegisterClass(namespaces, class, defaultExport), class, class.members[i])

\* The visitor met a member whose name was taken in its class's namespace, by
\* an entry that is still there
C7_Witness ==
    /\ last.node = "class"
    /\ "exists" \in last.events
    /\ \E entry \in EntriesOf(namespaces) : entry.type # "undefined" /\ entry.hasMembers /\ MapHas(entry.members, pB)

\* An entry holding a callback tag built for a class member, the member being
\* its source
IsSynthetic(entry) ==
    /\ entry.node # Undefined
    /\ entry.node.k = "tag"
    /\ entry.node.synthetic
    /\ entry.source.k = "member"

\* C8 as amended: every synthetic entry comes from a member whose doc block is
\* generic (template or typeParam tag) and abstract or typeParam-tagged, has no
\* private tag, whose name is no private identifier, and which is static or
\* typeParam-tagged.
C8_SyntheticOnlyIfGenericAbstractOrTypeParam ==
    \A entry \in EntriesOf(namespaces) : IsSynthetic(entry) =>
        /\ HasTag(entry.source.jsDoc[1], {"template", "typeparam"})
        /\ HasTag(entry.source.jsDoc[1], {"abstract", "typeparam"})
        /\ ~HasTag(entry.source.jsDoc[1], {"private"})
        /\ ~entry.source.isPrivateIdentifier
        /\ "static" \in entry.source.modifiers \/ HasTag(entry.source.jsDoc[1], {"typeparam"})

\* C8 as stated: every synthetic entry comes from a member whose doc block is
\* generic and abstract, has no private tag, whose name is no private
\* identifier, and which is static or typeParam-tagged.
C8_SyntheticOnlyIfGenericAbstract ==
    \A entry \in EntriesOf(namespaces) : IsSynthetic(entry) =>
        /\ HasTag(entry.source.jsDoc[1], {"template", "typeparam"})
        /\ HasTag(entry.source.jsDoc[1], {"abstract"})
        /\ ~HasTag(entry.source.jsDoc[1], {"private"})
        /\ ~entry.source.isPrivateIdentifier
        /\ "static" \in entry.source.modifiers \/ HasTag(entry.source.jsDoc[1], {"typeparam"})

\* A synthetic entry was registered for a member with a typeParam tag and no
\* abstract tag
C8_Witness ==
    /\ "synthetic" \in last.events
    /\ \E entry \in EntriesOf(namespaces) : IsSynthetic(entry) /\ ~HasTag(entry.source.jsDoc[1], {"abstract"})

\* C9: no entry of the tree holds a typedef, callback or enum tag of a doc
\* block that has an internal tag (so no type alias is generated for one).
C9_InternalNeverRegistered ==
    \A entry \in EntriesOf(namespaces) :
        (entry.node # Undefined /\ entry.node.k = "tag" /\ ~entry.node.synthetic)
            => ~HasTag(entry.node.parent, {"internal"})

\* The visitor met a type-defining tag in a doc block with an internal tag,
\* after another tag had been registered
C9_Witness ==
    /\ "internal" \in last.events
    /\ status = "running"
    /\ \E entry \in EntriesOf(namespaces) : entry.node # Undefined /\ entry.node.k = "tag"

\* A tag that names no namespace: no qualified name, nothing before the "~" of
\* its comment, no type for the checker to print
Unmappable(tag) ==
    /\ ~Truthy(GetNamespaceNameForTag(tag))
    /\ ~Truthy(StripLocal(tag.comment))
    /\ ~Truthy(tag.typeString)

\* C10: in every reachable tree, registering a type-defining tag that names
\* no namespace leaves the tree unchanged and raises no error.
C10_UnmappableDroppedSilently ==
    \A tag \in TypeTags : Unmappable(tag) =>
        /\ ~RegisterTypeTag(namespaces, tag, Doc(<<tag>>), StatementNode(<<tag>>)).threw
        /\ RegisterTypeTag(namespaces, tag, Doc(<<tag>>), StatementNode(<<tag>>)).map = namespaces

\* Every name of a tree with the entry stored under it
RECURSIVE KeyedEntriesOf(_)
KeyedEntriesOf(map) ==
    UNION {{map[i]} \cup (IF map[i].v.hasMembers THEN KeyedEntriesOf(map[i].v.members) ELSE {}) : i \in 1..Len(map)}

Separators == {".", "~", "#"}

\* The part of a string after its last separator
RECURSIVE AfterLastSeparator(_)
AfterLastSeparator(s) ==
    IF \E i \in 1..Len(s) : s[i] \in Separators
    THEN AfterLastSeparator(SubSeq(s, (CHOOSE i \in 1..Len(s) : s[i] \in Separators /\ \A j \in 1..(i - 1) : s[j] \notin Separators) + 1, Len(s)))
    ELSE s

\* C11: every entry holding a type-defining tag that has comment text is
\* stored under the part of the comment after its last separator, also when
\* the comment has more than one separator (A~B~A is stored under A).
C11_LocalNameAfterLastSeparator ==
    \A pair \in KeyedEntriesOf(namespaces) :
        (/\ pair.v.node # Undefined
         /\ pair.v.node.k = "tag"
         /\ ~pair.v.node.synthetic
         /\ Truthy(pair.v.node.tag.comment))
            => pair.k = AfterLastSeparator(pair.v.node.tag.comment)

(***************************************************************************)
(* Single calls of the library's functions: the arguments they are called   *)
(* with                                                                     *)
(***************************************************************************)
\* Nesting of the type nodes handed to the type resolver
MaxTypeDepth == 1

NumberKeyword == KeywordType("number")

\* What the checker may answer for a reference named name: the name resolves
\* to a type; it resolves to nothing but the checker keeps the name; the type
\* is the error type and prints as any (a generic alias referenced without its
\* type arguments); the name stands for any (Object); it stands for a
\* primitive (String)
CheckerAnswers(name) ==
    { [guessed |-> TypeReference(name, <<>>, Undefined), error |-> FALSE],
      [guessed |-> TypeReference(name, <<>>, Undefined), error |-> TRUE],
      [guessed |-> KeywordType("any"), error |-> TRUE],
      [guessed |-> KeywordType("any"), error |-> FALSE],
      [guessed |-> KeywordType("string"), error |-> FALSE] }

\* The references named A or A.B, with the given type arguments
References(typeArguments) ==
    UNION {{CheckedReference(name, typeArguments, answer.guessed, answer.error) : answer \in CheckerAnswers(name)} :
              name \in {pA, pAB}}

\* The type nodes nested at most d deep
RECURSIVE TypeNodes(_)
TypeNodes(d) ==
    IF d = 0 THEN {NumberKeyword, [kind |-> "TypeQuery", exprName |-> pA]} \cup References(<<>>)
    ELSE TypeNodes(d - 1)
             \cup {[kind |-> "Array", elementType |-> t] : t \in TypeNodes(d - 1)}
             \cup {[kind |-> "Union", types |-> <<t, NumberKeyword>>] : t \in TypeNodes(d - 1)}
             \cup UNION {References(<<t>>) : t \in TypeNodes(d - 1)}

\* The lists of at most n elements of a set
RECURSIVE ListsOf(_, _)
ListsOf(S, n) == IF n = 0 THEN {<<>>} ELSE {<<>>} \cup {<<x>> \o list : x \in S, list \in ListsOf(S, n - 1)}

\* Most members of a declared union or intersection
MaxTypes == 3

\* Members of a declared union or intersection: two keywords, and a reference
\* A that the checker resolves to the primitive string
MemberTypes == {NumberKeyword, KeywordType("boolean"), CheckedReference(pA, <<>>, KeywordType("string"), FALSE)}

\* The unions and intersections of 2..MaxTypes members
CompositeTypes ==
    {[kind |-> kind, types |-> types] :
        kind \in {"Union", "Intersection"},
        types \in {list \in ListsOf(MemberTypes, MaxTypes) : Len(list) >= 2}}

\* A tag with a type expression, such as @returns {A} or @type {A}
TypedTag(tagName, type) ==
    [tagName |-> tagName, fullName |-> Undefined, comment |-> <<>>, hasTypeExpression |-> TRUE,
     typeString |-> <<>>, type |-> type]

\* The nodes the resolver is called with: type nodes, tags with and without a
\* type expression, and no node
ResolvedNodes ==
    TypeNodes(MaxTypeDepth) \cup CompositeTypes \cup {Undefined, Flag("returns")}
        \cup {TypedTag("returns", t) : t \in TypeNodes(MaxTypeDepth)}

\* A call that has not returned
Called(fn, args) == [fn |-> fn, args |-> args, returned |-> FALSE, result |-> Undefined]

ResolveActualTypeCalls ==
    {Called("resolveActualType", [node |-> node, isAsync |-> isAsync]) : node \in ResolvedNodes, isAsync \in BOOLEAN}

\* The call returns its result
Returned(result) == call' = [call EXCEPT !.returned = TRUE, !.result = result]

CallResolveActualType ==
    /\ call.fn = "resolveActualType"
    /\ ~call.returned
    /\ Returned(ResolveActualType(call.args.node, call.args.isAsync))
    /\ UNCHANGED <<namespaces, modules, defaultExport, status, output, visited, last, generator, outputPlugin>>

\* The @returns tags a signature or a method may carry: none, or a number
ReturnTagLists == {<<>>, <<TypedTag("returns", NumberKeyword)>>}

ThrowsTagLists == {<<>>, <<Flag("throws")>>}

\* An @callback or @overload tag: the @returns tag written after it belongs
\* to its signature
SignatureTag(tagName, returns) ==
    IF returns = <<>> THEN [tagName |-> tagName, parameters |-> <<>>]
    ELSE [tagName |-> tagName, parameters |-> <<>>, returns |-> returns[1]]

\* A callback tag in its doc block, documented on a node that is async or not
GenerateCallbackTypeCalls ==
    {Called("generateCallbackType",
            [tag |-> SignatureTag("callback", returns),
             doc |-> Doc(<<SignatureTag("callback", returns)>> \o throws),
             source |-> [modifiers |-> modifiers]]) :
        returns \in ReturnTagLists, throws \in ThrowsTagLists, modifiers \in {{}, {"async"}}}

CallGenerateCallbackType ==
    /\ call.fn = "generateCallbackType"
    /\ ~call.returned
    /\ Returned(GenerateCallbackType(call.args.tag, call.args.source))
    /\ UNCHANGED <<namespaces, modules, defaultExport, status, output, visited, last, generator, outputPlugin>>

\* The doc blocks written before a method for its overloads: none, or one
\* block with an @overload tag
OverloadDocLists ==
    {<<>>} \cup {<<Doc(<<SignatureTag("overload", returns)>> \o throws)>> :
                    returns \in ReturnTagLists, throws \in ThrowsTagLists}

\* Method B of class A, with the doc blocks of its overloads before its own
DocumentedMethod(overloads, tags, modifiers) ==
    [WithParent(Method(tags, modifiers, FALSE), ClassNode(pA, <<>>, <<>>)) EXCEPT !.jsDoc = overloads \o <<Doc(tags)>>]

GenerateMethodDeclarationCalls ==
    {Called("generateMethodDeclaration", [node |-> DocumentedMethod(overloads, returns \o throws, modifiers)]) :
        overloads \in OverloadDocLists, returns \in ReturnTagLists, throws \in ThrowsTagLists,
        modifiers \in {{}, {"async"}}}

CallGenerateMethodDeclaration ==
    /\ call.fn = "generateMethodDeclaration"
    /\ ~call.returned
    /\ Returned(GenerateMethodDeclaration(call.args.node))
    /\ UNCHANGED <<namespaces, modules, defaultExport, status, output, visited, last, generator, outputPlugin>>

\* Number of elements of the arrays an enum's values are read from
MaxElements == 2

\* The lists of 1..n literals "a" and 1
RECURSIVE LiteralLists(_)
LiteralLists(n) ==
    IF n = 0 THEN {<<>>}
    ELSE {<<literal>> \o list : literal \in {Literal("StringLiteral", "a"), Literal("NumericLiteral", "1")},
                                list \in LiteralLists(n - 1)}

EnumElementLists == UNION {LiteralLists(n) : n \in 1..MaxElements}

\* What an enum tag is documented on:  {x: [...]}  in an object literal,
\* const x = [...],  or  const x = [...], y = ["a"]
EnumSources ==
    {[k |-> "propertyAssignment", elements |-> elements] : elements \in EnumElementLists}
        \cup {[k |-> "statement", declarations |-> <<elements>>] : elements \in EnumElementLists}
        \cup {[k |-> "statement", declarations |-> <<elements, <<Literal("StringLiteral", "a")>>>>] :
                  elements \in EnumElementLists}

\* @enum,  @enum {number}  and  @enum {"a"|"b"|"c"}
EnumTags ==
    { Tag("enum", Undefined, <<>>, FALSE, <<>>),
      TypedTag("enum", NumberKeyword),
      TypedTag("enum", UnionType(LiteralTypes(<<Literal("StringLiteral", "a"), Literal("StringLiteral", "b"),
                                                Literal("StringLiteral", "c")>>))) }

GenerateEnumTypeCalls ==
    {Called("generateEnumType", [tag |-> tag, source |-> source]) : tag \in EnumTags, source \in EnumSources}

CallGenerateEnumType ==
    /\ call.fn = "generateEnumType"
    /\ ~call.returned
    /\ Returned(GenerateEnumType(call.args.tag, call.args.source))
    /\ UNCHANGED <<namespaces, modules, defaultExport, status, output, visited, last, generator, outputPlugin>>

\* Longest dotted name of a property-like tag
MaxNameDepth == 3

\* The names a, a.b, a.b.c, ... down to d parts
RECURSIVE ChainName(_)
ChainName(d) == IF d = 1 THEN Str("a") ELSE Dotted(ChainName(d - 1), Str("b"))

\* The names of the tags of a list: the chain, a plain name, and a dotted name
\* whose left part names no tag
PropertyNames == {ChainName(d) : d \in 1..MaxNameDepth} \cup {Str("x"), Dotted(Str("y"), Str("z"))}

\* The lists of distinct elements of a set
RECURSIVE Arrangements(_)
Arrangements(S) == {<<>>} \cup UNION {{<<x>> \o list : list \in Arrangements(S \ {x})} : x \in S}

\* A @param tag of a given name; its declared type is a reference to a type
\* of the same name, none of them Object
PropertyLikeTag(name) == ParamTag(name, TypeReference(name, <<>>, Undefined))

ResolveUnderstructuredTagsCalls ==
    {Called("resolveUnderstructuredTags", [tags |-> [i \in 1..Len(names) |-> PropertyLikeTag(names[i])]]) :
        names \in Arrangements(PropertyNames)}

CallResolveUnderstructuredTags ==
    /\ call.fn = "resolveUnderstructuredTags"
    /\ ~call.returned
    /\ Returned(ResolveUnderstructuredTags(call.args.tags, <<>>))
    /\ UNCHANGED <<namespaces, modules, defaultExport, status, output, visited, last, generator, outputPlugin>>

\* Longest member list handed to filterMembers
MaxMembers == 3

\* A member  B: B  of an object literal: its initializer is the identifier
\* of its own name
ShorthandMember(tags) ==
    [k |-> "member", kind |-> "PropertyAssignment", name |-> pB, modifiers |-> {},
     isPrivateIdentifier |-> FALSE, parameters |-> <<>>,
     jsDoc |-> IF tags = <<>> THEN <<>> ELSE <<Doc(tags)>>, initializer |-> pB]

\* Members of every sort the filter tells apart: documented or not, tagged
\* internal or inheritDoc, named #B, declared private, unnamed, shorthand
FilterableMembers ==
    { Method(<<>>, {}, FALSE),
      Method(<<>>, {}, TRUE),
      Method(<<Flag("internal")>>, {}, FALSE),
      Method(<<Flag("inheritDoc")>>, {}, FALSE),
      Method(<<>>, {"private"}, FALSE),
      Ctor,
      Member("Constructor", <<>>, {}, FALSE, <<>>, <<Flag("internal")>>),
      ShorthandMember(<<>>),
      ShorthandMember(<<SimpleTag("type", Str("T"))>>) }

FilterMembersCalls ==
    {Called("filterMembers", [type |-> type, members |-> members]) :
        type \in {"namespace", "alias", "class"}, members \in ListsOf(FilterableMembers, MaxMembers)}

CallFilterMembers ==
    /\ call.fn = "filterMembers"
    /\ ~call.returned
    /\ Returned(FilterMembers(call.args.type, call.args.members))
    /\ UNCHANGED <<namespaces, modules, defaultExport, status, output, visited, last, generator, outputPlugin>>

\* A heritage type  name<typeArguments>  or  ns.name<typeArguments>; parent
\* is where it stands (the class's clause or a tag), isConstructable the
\* checker's answer for it
HeritageType(expressionKind, name, typeArguments, parent, isConstructable) ==
    [expression |-> IF expressionKind = "Identifier" THEN [kind |-> "Identifier", escapedText |-> name]
                    ELSE [kind |-> "PropertyAccessExpression", expression |-> "ns", name |-> name],
     typeArguments |-> typeArguments, parent |-> parent, isConstructable |-> isConstructable]

HeritageTag(tagName, class) == [tagName |-> tagName, class |-> class]

\* class C, class C extends Base, class C extends ns.Base, class C extends
\* Other; Base constructable or not
ExplicitHeritageClauses ==
    {<<>>} \cup
    {<<HeritageClause("extends", <<HeritageType(expressionKind, name, <<>>, "HeritageClause", isConstructable)>>)>> :
        expressionKind \in {"Identifier", "PropertyAccessExpression"}, name \in {"Base", "Other"},
        isConstructable \in BOOLEAN}

DocumentedBase(typeArguments) == HeritageType("Identifier", "Base", typeArguments, "JSDocAugmentsTag", TRUE)

\* @extends Base, @extends Base<T>, both, @extends Other, or none
ExtendsTagLists ==
    { <<>>,
      <<HeritageTag("extends", DocumentedBase(<<>>))>>,
      <<HeritageTag("extends", DocumentedBase(<<Str("T")>>))>>,
      <<HeritageTag("extends", DocumentedBase(<<>>)), HeritageTag("extends", DocumentedBase(<<Str("T")>>))>>,
      <<HeritageTag("extends", HeritageType("Identifier", "Other", <<>>, "JSDocAugmentsTag", TRUE))>> }

ImplementsTagLists ==
    { <<>>,
      <<HeritageTag("implements", HeritageType("Identifier", "I", <<>>, "JSDocImplementsTag", FALSE))>>,
      <<HeritageTag("implements", HeritageType("Identifier", "I", <<>>, "JSDocImplementsTag", FALSE)),
        HeritageTag("implements", HeritageType("Identifier", "Base", <<>>, "JSDocImplementsTag", FALSE))>> }

GenerateClassHeritageClausesCalls ==
    {Called("generateClassHeritageClauses",
            [node |-> [heritageClauses |-> clauses, jsDoc |-> <<Doc(implements \o extends)>>],
             isInterface |-> isInterface]) :
        clauses \in ExplicitHeritageClauses, extends \in ExtendsTagLists,
        implements \in ImplementsTagLists, isInterface \in BOOLEAN}

CallGenerateClassHeritageClauses ==
    /\ call.fn = "generateClassHeritageClauses"
    /\ ~call.returned
    /\ Returned(GenerateClassHeritageClauses(call.args.node, call.args.isInterface))
    /\ UNCHANGED <<namespaces, modules, defaultExport, status, output, visited, last, generator, outputPlugin>>

\* Set.prototype.add on a set kept in insertion order
SetAdd(set, value) == IF \E i \in 1..Len(set) : set[i] = value THEN set ELSE Append(set, value)

\* An import declaration  import name, {propertyName as name, ...} from
\* "moduleSpecifier"; name is <<>> without a default name, and an element's
\* propertyName is <<>> without  as
ImportDeclaration(moduleSpecifier, name, elements) ==
    [moduleSpecifier |-> moduleSpecifier, name |-> name, elements |-> elements]

ImportElement(propertyName, name) == [propertyName |-> propertyName, name |-> name]

\* [...new Set([propertyName, name].filter(v => v))].join(","): the names of
\* an element, once when they are the same; split(",") gives them back
BindingOf(element) ==
    SetAdd(IF element.propertyName = <<>> THEN <<>> ELSE <<element.propertyName>>, element.name)

RECURSIVE AddBindings(_, _)
AddBindings(bindings, elements) ==
    IF elements = <<>> THEN bindings
    ELSE AddBindings(SetAdd(bindings, BindingOf(Head(elements))), Tail(elements))

\* The names and bindings kept for a module so far
ImportsOf(imports, name) ==
    IF MapHas(imports, name) THEN MapGet(imports, name) ELSE [names |-> <<>>, bindings |-> <<>>]

\* The visitor on an import declaration: the default name and the named
\* bindings of a module listed in externalModules are added to its record
VisitImportDeclaration(imports, node, externalModules) ==
    IF node.moduleSpecifier \notin externalModules THEN imports
    ELSE MapSet(imports, node.moduleSpecifier,
                [names |-> IF node.name # <<>> THEN SetAdd(ImportsOf(imports, node.moduleSpecifier).names, node.name)
                           ELSE ImportsOf(imports, node.moduleSpecifier).names,
                 bindings |-> AddBindings(ImportsOf(imports, node.moduleSpecifier).bindings, node.elements)])

RECURSIVE VisitImportDeclarations(_, _, _)
VisitImportDeclarations(imports, nodes, externalModules) ==
    IF nodes = <<>> THEN imports
    ELSE VisitImportDeclarations(VisitImportDeclaration(imports, Head(nodes), externalModules),
                                 Tail(nodes), externalModules)

\* createImportSpecifier(false, v && k, v ?? k) for a binding [k, v]
ImportSpecifier(binding) ==
    IF Len(binding) = 2 THEN ImportElement(binding[1], binding[2]) ELSE ImportElement(<<>>, binding[1])

\* The import declarations of one module: one for each default name, the
\* first of them with the named imports when there are bindings
ModuleImports(name, names, bindings) ==
    [index \in 1..Len(names) |->
        ImportDeclaration(name, names[index],
                          IF index > 1 \/ bindings = <<>> THEN <<>>
                          ELSE [i \in 1..Len(bindings) |-> ImportSpecifier(bindings[i])])]

RECURSIVE GenerateModuleImports(_)
GenerateModuleImports(imports) ==
    IF imports = <<>> THEN <<>>
    ELSE ModuleImports(Head(imports).k, Head(imports).v.names, Head(imports).v.bindings)
             \o GenerateModuleImports(Tail(imports))

\* Most import declarations of a program
MaxImports == 2

\* import D from, import {x} from, import {x as y} from, import D, {x} from
\* ... a module that is listed in externalModules (ext) or one that is not
ImportDeclarations ==
    {ImportDeclaration(Str(moduleSpecifier), name, elements) :
        moduleSpecifier \in {"ext", "other"}, name \in {<<>>, Str("D")},
        elements \in {<<>>, <<ImportElement(<<>>, Str("x"))>>, <<ImportElement(Str("x"), Str("y"))>>}}

GenerateModuleImportsCalls ==
    {Called("generateModuleImports", [nodes |-> nodes, externalModules |-> {Str("ext")}]) :
        nodes \in ListsOf(ImportDeclarations, MaxImports)}

\* The import declarations of the program are visited, then those of the
\* primary module are generated from what was kept
CallGenerateModuleImports ==
    /\ call.fn = "generateModuleImports"
    /\ ~call.returned
    /\ Returned(GenerateModuleImports(VisitImportDeclarations(EmptyMap, call.args.nodes, call.args.externalModules)))
    /\ UNCHANGED <<namespaces, modules, defaultExport, status, output, visited, last, generator, outputPlugin>>

\* {...a, ...b}: the properties of both objects, those of b winning
ObjectSpread(a, b) == [key \in DOMAIN a \cup DOMAIN b |-> IF key \in DOMAIN b THEN b[key] ELSE a[key]]

\* What ostensiblyTyped sets whatever the caller says; option values are
\* written as in a configuration file
ForcedOptions == [target |-> "Latest", allowJs |-> "true"]

\* config?.compilerOptions ?? {}
SuppliedOptions(config) == IF "compilerOptions" \in DOMAIN config THEN config.compilerOptions ELSE <<>>

\* The options with the caller's spread last
CompilerOptionsCallerLast(config) == ObjectSpread(ForcedOptions, SuppliedOptions(config))

\* const compilerOptions = {...(config?.compilerOptions ?? {}), target, allowJs: true}
CompilerOptions(config) == ObjectSpread(SuppliedOptions(config), ForcedOptions)

\* The values a caller may give an option
OptionValues(key) ==
    CASE key = "target" -> {"ES5", "Latest"}
      [] key = "outDir" -> {"dist"}
      [] OTHER -> {"true", "false"}

\* Every object over some of the options allowJs, target, strict, outDir
CallerOptions ==
    UNION {{options \in [keys -> {"true", "false", "ES5", "Latest", "dist"}] :
               \A key \in keys : options[key] \in OptionValues(key)} :
           keys \in SUBSET {"allowJs", "target", "strict", "outDir"}}

CompilerOptionsCalls ==
    {Called("compilerOptions", [config |-> config]) :
        config \in {<<>>} \cup {[compilerOptions |-> options] : options \in CallerOptions}}

\* The first statement of ostensiblyTyped
CallCompilerOptions ==
    /\ call.fn = "compilerOptions"
    /\ ~call.returned
    /\ Returned(CompilerOptions(call.args.config))
    /\ UNCHANGED <<namespaces, modules, defaultExport, status, output, visited, last, generator, outputPlugin>>

\* An @prop tag of a given name and declared type
PropertyTag(name, type) == [ParamTag(name, type) EXCEPT !.tagName = "prop"]

\* @param {A | number | boolean} p, @prop {A & number} p, ...
GenerateTypeNodeCalls ==
    {Called("generateTypeNode", [node |-> tag]) :
        tag \in {ParamTag(Str("p"), type) : type \in CompositeTypes}
                    \cup {PropertyTag(Str("p"), type) : type \in CompositeTypes}}

CallGenerateTypeNode ==
    /\ call.fn = "generateTypeNode"
    /\ ~call.returned
    /\ Returned(GenerateTypeNode(call.args.node))
    /\ UNCHANGED <<namespaces, modules, defaultExport, status, output, visited, last, generator, outputPlugin>>

\* class B [extends ...] documented with some @extends tags, with a
\* documented constructor or without members
GenerateClassDeclarationCalls ==
    {Called("generateClassDeclaration",
            [node |-> [k |-> "class", name |-> pB, heritageClauses |-> clauses,
                       jsDoc |-> <<Doc(<<Flag("namespace")>> \o extends)>>, members |-> members],
             type |-> "namespace"]) :
        clauses \in ExplicitHeritageClauses, extends \in ExtendsTagLists, members \in {<<>>, <<Ctor>>}}

CallGenerateClassDeclaration ==
    /\ call.fn = "generateClassDeclaration"
    /\ ~call.returned
    /\ Returned(GenerateClassDeclaration(call.args.node, call.args.type))
    /\ UNCHANGED <<namespaces, modules, defaultExport, status, output, visited, last, generator, outputPlugin>>

\* A @param tag whose name is in brackets: the parameter is optional
BracketedParamTag(name, type) ==
    [tagName |-> "param", fullName |-> Undefined, comment |-> <<>>, hasTypeExpression |-> TRUE,
     typeString |-> <<>>, name |-> name, type |-> type, isBracketed |-> TRUE]

\* The name s2: names are written character by character where one name
\* begins with the characters of another
NameS2 == <<"s", "2">>

\* @param {number} s   @param {boolean} s.x   @param {number} s.x.y
\* @param {string} [s2]
DocumentedParamTags ==
    { ParamTag(Str("s"), NumberKeyword),
      ParamTag(Dotted(Str("s"), Str("x")), KeywordType("boolean")),
      ParamTag(Dotted(Dotted(Str("s"), Str("x")), Str("y")), NumberKeyword),
      BracketedParamTag(NameS2, KeywordType("string")) }

\* function f(s, s2) under a doc block with some of the tags, in any order
GenerateParameterDeclarationsCalls ==
    {Called("generateParameterDeclarations",
            [node |-> [parameters |-> <<[name |-> Str("s")], [name |-> NameS2]>>, jsDoc |-> <<Doc(tags)>>]]) :
        tags \in Arrangements(DocumentedParamTags)}

CallGenerateParameterDeclarations ==
    /\ call.fn = "generateParameterDeclarations"
    /\ ~call.returned
    /\ Returned(GenerateParameterDeclarations(call.args.node))
    /\ UNCHANGED <<namespaces, modules, defaultExport, status, output, visited, last, generator, outputPlugin>>

(***************************************************************************)
(* The functions called one at a time: a call is chosen with its arguments, *)
(* then it returns                                                          *)
(***************************************************************************)
InitFunctions ==
    /\ namespaces = EmptyMap
    /\ modules = EmptyMap
    /\ defaultExport = pA
    /\ status = "idle"
    /\ output = <<>>
    /\ visited = 0
    /\ last = [node |-> "none", events |-> {}]
    /\ generator = NoPlugin
    /\ outputPlugin = NoPlugin
    /\ \/ call \in ResolveActualTypeCalls
       \/ call \in GenerateCallbackTypeCalls
       \/ call \in GenerateMethodDeclarationCalls
       \/ call \in GenerateEnumTypeCalls
       \/ call \in ResolveUnderstructuredTagsCalls
       \/ call \in FilterMembersCalls
       \/ call \in GenerateClassHeritageClausesCalls
       \/ call \in GenerateModuleImportsCalls
       \/ call \in CompilerOptionsCalls
       \/ call \in GenerateTypeNodeCalls
       \/ call \in GenerateClassDeclarationCalls
       \/ call \in GenerateParameterDeclarationsCalls

NextFunctions ==
    \/ CallResolveActualType
    \/ CallGenerateCallbackType
    \/ CallGenerateMethodDeclaration
    \/ CallGenerateEnumType
    \/ CallResolveUnderstructuredTags
    \/ CallFilterMembers
    \/ CallGenerateClassHeritageClauses
    \/ CallGenerateModuleImports
    \/ CallCompilerOptions
    \/ CallGenerateTypeNode
    \/ CallGenerateClassDeclaration
    \/ CallGenerateParameterDeclarations

SpecFunctions == InitFunctions /\ [][NextFunctions]_vars

\* C12: a call of resolveActualType with isAsync set returns one reference to
\* Promise whose only type argument is what the call without isAsync returns
\* for the same node (void when there is no node); the wrapper is applied
\* once, so the argument is a Promise only when the node itself resolves to one.
C12_AsyncWrapsOnce ==
    (call.fn = "resolveActualType" /\ call.returned /\ call.args.isAsync) =>
        /\ IsTypeReference(call.result)
        /\ call.result.typeName = Str("Promise")
        /\ call.result.typeArguments = <<ResolveActualType(call.args.node, FALSE)>>

\* An async call without a node has returned Promise<void>, and the same for
\* a tag is possible
C12_Witness ==
    /\ call.fn = "resolveActualType"
    /\ call.returned
    /\ call.args.isAsync
    /\ call.args.node = Undefined
    /\ call.result = TypeReference(Str("Promise"), <<VoidKeyword>>, Undefined)

\* C13: when resolveActualType is called with a tag (for which the checker has
\* only the error type) that declares a reference to a name, and the checker
\* has the error type for the reference too, the result is a reference to
\* that name: not void, not any.
C13_ErrorFallsBackToDeclaredName ==
    (/\ call.fn = "resolveActualType"
     /\ call.returned
     /\ ~call.args.isAsync
     /\ "tagName" \in DOMAIN call.args.node
     /\ "type" \in DOMAIN call.args.node
     /\ IsTypeReference(call.args.node.type)
     /\ IsErrorType(call.args.node.type))
        => /\ IsTypeReference(call.result)
           /\ call.result.typeName = call.args.node.type.typeName

\* C14: the function type generated for a callback tag has the return type
\* never when its doc block has a throws tag, and each method declaration
\* generated for a method (one per overload block, then the method's own) has
\* the return type never when the doc block it comes from has a throws tag,
\* whether or not the owning node is async; so a Promise is the return type
\* only without a throws tag.
C14_ThrowsGivesNever ==
    /\ (call.fn = "generateCallbackType" /\ call.returned /\ HasTag(call.args.doc, {"throws"}))
           => call.result.type = NeverKeyword
    /\ (call.fn = "generateMethodDeclaration" /\ call.returned) =>
           /\ Len(call.result) = Len(call.args.node.jsDoc)
           /\ \A i \in 1..Len(call.result) :
                  HasTag(call.args.node.jsDoc[i], {"throws"}) => call.result[i].type = NeverKeyword

\* The enum of a call is read from one array: its tag declares no union of
\* its own, and its source is a property assignment or a variable statement
\* with a single declaration
ReadsOneArray(args) ==
    /\ ~("type" \in DOMAIN args.tag /\ args.tag.type.kind = "Union")
    /\ args.source.k = "propertyAssignment" \/ Len(args.source.declarations) = 1

\* C15: an enum tag on a property assignment or a single variable declaration
\* whose array has n >= 1 literal elements gives a union node with exactly n
\* literal types, the i-th being the literal of the i-th element; for n = 1
\* the result is still a union (of one member), not the literal type itself.
C15_EnumUnionOfAllElements ==
    (call.fn = "generateEnumType" /\ call.returned /\ ReadsOneArray(call.args)) =>
        /\ call.result.kind = "Union"
        /\ Len(call.result.types) = Len(EnumInitializers(call.args.source)[1])
        /\ \A i \in 1..Len(call.result.types) :
              /\ call.result.types[i].kind = "LiteralType"
              /\ call.result.types[i].literal = EnumInitializers(call.args.source)[1][i]

\* An enum read from a variable declaration with a single element has been
\* generated as a union of one member
C15_Witness ==
    /\ call.fn = "generateEnumType"
    /\ call.returned
    /\ ReadsOneArray(call.args)
    /\ call.args.source.k = "statement"
    /\ Len(call.args.source.declarations[1]) = 1
    /\ call.result.kind = "Union"
    /\ Len(call.result.types) = 1

\* The name and its dotted prefixes, shortest first: a, a.b, a.b.c
RECURSIVE NameWithPrefixes(_)
NameWithPrefixes(name) ==
    IF IsQualifiedName(name) THEN Append(NameWithPrefixes(Left(name)), name) ELSE <<name>>

NamesTag(tags, name) == \E i \in 1..Len(tags) : tags[i].name = name

\* Every name of the chain names a tag of the list
WellRooted(tags, name) ==
    \A i \in 1..Len(NameWithPrefixes(name)) : NamesTag(tags, NameWithPrefixes(name)[i])

\* The restructured tags hold the last name of the chain below the others:
\* each but the last is there with the intersection of its declared type and
\* a type literal that holds the next
RECURSIVE HoldsNested(_, _)
HoldsNested(tags, chain) ==
    \E i \in 1..Len(tags) :
        /\ tags[i].name = Head(chain)
        /\ Len(chain) > 1 =>
              /\ tags[i].type.kind = "Intersection"
              /\ tags[i].type.types[1] = PropertyLikeTag(Head(chain)).type
              /\ HoldsNested(tags[i].type.types[2].jsDocPropertyTags, Tail(chain))

\* The names of restructured tags, at every level of nesting
RECURSIVE NamesHeld(_)
NamesHeld(tags) ==
    UNION {{tags[i].name} \cup (IF tags[i].type.kind = "Intersection"
                                THEN NamesHeld(tags[i].type.types[2].jsDocPropertyTags) ELSE {}) :
              i \in 1..Len(tags)}

\* C16: resolveUnderstructuredTags nests dotted tags at any depth.  Every tag
\* all of whose dotted prefixes name tags of the list is in the result, as a
\* property of the type literal intersected with the declared type of its
\* parent (so none of them is lost); a tag without a dot that has no
\* properties is returned as it is; a dotted tag whose left part names no tag
\* is nowhere in the result.
C16_NestedAtAnyDepth ==
    (call.fn = "resolveUnderstructuredTags" /\ call.returned) =>
        \A i \in 1..Len(call.args.tags) :
            /\ WellRooted(call.args.tags, call.args.tags[i].name)
                  => HoldsNested(call.result, NameWithPrefixes(call.args.tags[i].name))
            /\ (~IsQualifiedName(call.args.tags[i].name) /\ ChildTags(call.args.tags, call.args.tags[i]) = <<>>)
                  => \E j \in 1..Len(call.result) : call.result[j] = call.args.tags[i]
            /\ (IsQualifiedName(call.args.tags[i].name) /\ ~NamesTag(call.args.tags, Left(call.args.tags[i].name)))
                  => call.args.tags[i].name \notin NamesHeld(call.result)

\* r can be had from s by leaving elements out
RECURSIVE IsSubsequence(_, _)
IsSubsequence(r, s) ==
    IF r = <<>> THEN TRUE
    ELSE IF s = <<>> THEN FALSE
    ELSE IF Head(r) = Head(s) THEN IsSubsequence(Tail(r), Tail(s))
    ELSE IsSubsequence(r, Tail(s))

CarriesTag(m, tagNames) ==
    \E d \in 1..Len(m.jsDoc) : \E t \in 1..Len(m.jsDoc[d].tags) : m.jsDoc[d].tags[t].tagName \in tagNames

\* C17: whatever the kind and the member list, no member of the result of
\* filterMembers carries an internal or an inheritDoc tag, none is named by a
\* private identifier, and the result is the member list with elements left
\* out, in the same order.
C17_FilterMembersDropsInternal ==
    (call.fn = "filterMembers" /\ call.returned) =>
        /\ \A i \in 1..Len(call.result) :
              /\ ~CarriesTag(call.result[i], {"internal", "inheritdoc", "inheritDoc"})
              /\ ~call.result[i].isPrivateIdentifier
        /\ IsSubsequence(call.result, call.args.members)

C17_Witness ==
    /\ call.fn = "filterMembers" /\ call.returned
    /\ call.args.type = "namespace"
    /\ \E i, j, k \in 1..Len(call.args.members) :
          /\ call.args.members[i].name = <<>> /\ CarriesTag(call.args.members[i], {"internal"})
          /\ CarriesTag(call.args.members[j], {"inheritDoc"})
          /\ call.args.members[k] = Ctor
    /\ call.result = <<Ctor>>

\* The types of a list that name Base, by identifier or as ns.Base
NamingBase(types) == SelectSeq(types, LAMBDA type : HeritageKey(type) = "Base")

\* C18: when the class's extends clause names Base and a documented extends
\* tag names Base, with or without type arguments, the generated extends
\* clause has exactly one type for Base and it is one a tag gives; and the
\* generated implements clause holds exactly the types of the documented
\* implements tags, in their order.
C18_DocumentedExtendsWins ==
    (call.fn = "generateClassHeritageClauses" /\ call.returned) =>
        /\ (NamingBase(ExplicitExtendsTypes(call.args.node)) # <<>>
               /\ NamingBase(TagClasses(call.args.node, "extends")) # <<>>)
              => /\ Len(NamingBase(call.result[1].types)) = 1
                 /\ NamingBase(call.result[1].types)[1].parent = "JSDocAugmentsTag"
        /\ call.result[2].token = "implements"
        /\ call.result[2].types = TagClasses(call.args.node, "implements")

C18_Witness ==
    /\ call.fn = "generateClassHeritageClauses" /\ call.returned
    /\ ~call.args.isInterface
    /\ ExplicitExtendsTypes(call.args.node) = <<HeritageType("Identifier", "Base", <<>>, "HeritageClause", TRUE)>>
    /\ TagClasses(call.args.node, "extends") = <<DocumentedBase(<<Str("T")>>)>>
    /\ call.result[1].types = <<DocumentedBase(<<Str("T")>>)>>
    /\ Len(call.result[2].types) = 2

\* The body of the namespace declaration of a name among some declarations,
\* empty when there is none
NamespaceBody(decls, name) ==
    IF \E n \in 1..Len(decls) : decls[n].d = "namespace" /\ decls[n].name = name
    THEN decls[CHOOSE n \in 1..Len(decls) : decls[n].d = "namespace" /\ decls[n].name = name].body
    ELSE <<>>

Declares(decls, d, name) == \E n \in 1..Len(decls) : decls[n].d = d /\ decls[n].name = name

\* filterMembers keeps at least one member of the class an entry is anchored on
HasDocumentedMembers(entry) ==
    entry.node.k = "class" /\ FilterMembers(entry.type, entry.node.members) # <<>>

\* An entry with a kind has its class declared exactly when some member of
\* the class passes the filter, and a namespace of its name declared exactly
\* when its members map is not empty
KindEmittedAsClaimed(name, entry, decls) ==
    /\ Declares(decls, "class", entry.node.name) <=> HasDocumentedMembers(entry)
    /\ Declares(decls, "namespace", name) <=> (entry.hasMembers /\ entry.members # <<>>)

\* The same of every entry with a kind in a members map and in the maps
\* below it, decls being the declarations generated at the place of the map
RECURSIVE KindsEmittedAsClaimed(_, _)
KindsEmittedAsClaimed(map, decls) ==
    \A i \in 1..Len(map) :
        /\ map[i].v.type # "undefined" => KindEmittedAsClaimed(map[i].k, map[i].v, decls)
        /\ map[i].v.hasMembers => KindsEmittedAsClaimed(map[i].v.members, NamespaceBody(decls, map[i].k))

\* C19: once the file is generated, for every entry of the tree with a kind:
\* a class declaration is there if and only if filterMembers keeps at least
\* one member of the entry's class, and a namespace declaration for the
\* entry's members is there if and only if its members map is not empty,
\* whether or not the class is declared.
C19_ClassIffMembersNamespaceIffMap ==
    status = "done" => KindsEmittedAsClaimed(namespaces, MainBody(output))

\* The type aliases of a name among some declarations
AliasesOf(decls, name) == SelectSeq(decls, LAMBDA decl : decl.d = "type" /\ decl.name = name)

\* An entry without kind that holds a tag has exactly one alias of its name,
\* exported exactly when the tag's doc block has no private tag, and not
\* exported when the tag was built for a class member
AliasEmittedAsClaimed(name, entry, decls) ==
    /\ Len(AliasesOf(decls, name)) = 1
    /\ AliasesOf(decls, name)[1].exported <=> ~HasTag(entry.node.parent, {"private"})
    /\ entry.node.synthetic => ~AliasesOf(decls, name)[1].exported

RECURSIVE AliasesEmittedAsClaimed(_, _)
AliasesEmittedAsClaimed(map, decls) ==
    \A i \in 1..Len(map) :
        /\ (map[i].v.type = "undefined" /\ map[i].v.node # Undefined /\ map[i].v.node.k = "tag")
              => AliasEmittedAsClaimed(map[i].k, map[i].v, decls)
        /\ map[i].v.hasMembers => AliasesEmittedAsClaimed(map[i].v.members, NamespaceBody(decls, map[i].k))

\* C20: once the file is generated, every entry of the tree that has no kind
\* and holds a tag has exactly one type alias declaration of its name; the
\* alias is exported if and only if the tag's doc block has no private tag,
\* and the alias of a tag built for a class member is not exported.
C20_OneAliasPerTagEntry ==
    status = "done" => AliasesEmittedAsClaimed(namespaces, MainBody(output))

\* C21: the tree is read-only while the file is generated: the step from the
\* call of generateDeclarationFile to its return (or its throw) leaves the
\* namespaces map as it was -- no entry added, replaced or removed in any
\* members map.
C21_TreeReadOnlyDuringAssembly ==
    [][last'.node = "file" /\ last.node # "file" => namespaces' = namespaces]_vars

\* An import declaration of the generated module imports a default name from
\* a module
ImportsName(decls, moduleSpecifier, name) ==
    \E i \in 1..Len(decls) : decls[i].moduleSpecifier = moduleSpecifier /\ decls[i].name = name

\* An import declaration of the generated module imports a named binding
\* from a module, under the same names
ImportsBinding(decls, moduleSpecifier, element) ==
    \E i \in 1..Len(decls) :
        /\ decls[i].moduleSpecifier = moduleSpecifier
        /\ \E j \in 1..Len(decls[i].elements) : decls[i].elements[j] = element

\* C22: every default name and every named binding that the program imports
\* from a module listed in externalModules is imported by an import
\* declaration of the generated primary module, also when a declaration has
\* named bindings only; and no generated import declaration names a module
\* that is not listed.
C22_ExternalImportsPassedThrough ==
    (call.fn = "generateModuleImports" /\ call.returned) =>
        /\ \A n \in 1..Len(call.args.nodes) :
              call.args.nodes[n].moduleSpecifier \in call.args.externalModules =>
                 /\ call.args.nodes[n].name # <<>>
                       => ImportsName(call.result, call.args.nodes[n].moduleSpecifier, call.args.nodes[n].name)
                 /\ \A e \in 1..Len(call.args.nodes[n].elements) :
                       ImportsBinding(call.result, call.args.nodes[n].moduleSpecifier,
                                      call.args.nodes[n].elements[e])
        /\ \A i \in 1..Len(call.result) : call.result[i].moduleSpecifier \in call.args.externalModules

\* C23: whatever compilerOptions the caller supplies, also allowJs: false, the
\* options the program is built with have allowJs = true, and every other
\* option of the caller except target has the caller's value; nothing else
\* is set but target.
C23_AllowJsForced ==
    (call.fn = "compilerOptions" /\ call.returned) =>
        /\ call.result["allowJs"] = "true"
        /\ DOMAIN call.result = DOMAIN SuppliedOptions(call.args.config) \cup {"allowJs", "target"}
        /\ \A key \in DOMAIN SuppliedOptions(call.args.config) \ {"allowJs", "target"} :
              call.result[key] = SuppliedOptions(call.args.config)[key]

\* The caller asked for allowJs: false and strict: true
C23_Witness ==
    /\ call.fn = "compilerOptions" /\ call.returned
    /\ "compilerOptions" \in DOMAIN call.args.config
    /\ DOMAIN call.args.config.compilerOptions = {"allowJs", "strict"}
    /\ call.args.config.compilerOptions["allowJs"] = "false"
    /\ call.args.config.compilerOptions["strict"] = "true"
    /\ call.result["allowJs"] = "true"
    /\ call.result["strict"] = "true"

\* The result has the kind of the declared union or intersection and as many
\* members, each the resolution of the declared member at its place
ResolvedMemberwise(declared, result) ==
    /\ KindOf(result) = declared.kind
    /\ Len(result.types) = Len(declared.types)
    /\ \A i \in 1..Len(declared.types) : result.types[i] = ResolveActualType(declared.types[i], FALSE)

\* C24: a declared union or intersection of n >= 2 members gives a union or
\* intersection of exactly n members in declared order, each member resolved
\* on its own and none dropped -- from resolveActualType on the type, and
\* from generateTypeNode on a parameter or property tag that declares it.
C24_EveryMemberResolved ==
    /\ (call.fn = "resolveActualType" /\ call.returned /\ ~call.args.isAsync
           /\ call.args.node \in CompositeTypes)
          => ResolvedMemberwise(call.args.node, call.result)
    /\ (call.fn = "generateTypeNode" /\ call.returned)
          => ResolvedMemberwise(call.args.node.type, call.result)

\* The types of the extends clauses of the declarations of one sort
ExtendsTypesOf(decls, d) ==
    IF \E i \in 1..Len(decls) : decls[i].d = d /\ \E c \in 1..Len(decls[i].heritageClauses) :
                                                     decls[i].heritageClauses[c].token = "extends"
    THEN SelectSeq(decls[CHOOSE i \in 1..Len(decls) : decls[i].d = d].heritageClauses,
                   LAMBDA clause : clause.token = "extends")[1].types
    ELSE <<>>

Occurrences(types, type) == Len(SelectSeq(types, LAMBDA t : t = type))

\* An explicitly extended type is in the class's extends clause alone when
\* constructable, in the interface's alone when not
InExactlyOnePlace(type, decls) ==
    /\ Occurrences(ExtendsTypesOf(decls, "class"), type) = (IF type.isConstructable THEN 1 ELSE 0)
    /\ Occurrences(ExtendsTypesOf(decls, "interface"), type) = (IF type.isConstructable THEN 0 ELSE 1)

\* C25: when a class is emitted, an interface is declared with it if and only
\* if some type of its explicit extends clause is not constructable; and
\* every explicitly extended type whose base name no documented extends tag
\* names is in exactly one extends clause: the class's if it is
\* constructable, the interface's if it is not.
C25_InterfaceIffNotConstructable ==
    (call.fn = "generateClassDeclaration" /\ call.returned /\ call.result # <<>>) =>
        /\ Declares(call.result, "class", call.args.node.name)
        /\ Declares(call.result, "interface", call.args.node.name)
              <=> \E i \in 1..Len(ExplicitExtendsTypes(call.args.node)) :
                     ~ExplicitExtendsTypes(call.args.node)[i].isConstructable
        /\ \A i \in 1..Len(ExplicitExtendsTypes(call.args.node)) :
              (\A t \in 1..Len(TagClasses(call.args.node, "extends")) :
                  HeritageKey(TagClasses(call.args.node, "extends")[t])
                      # HeritageKey(ExplicitExtendsTypes(call.args.node)[i]))
                 => InExactlyOnePlace(ExplicitExtendsTypes(call.args.node)[i], call.result)

\* class B extends Base, Base not constructable and no documented extends tag:
\* an interface extending Base and a class without extends clause
C25_Witness ==
    /\ call.fn = "generateClassDeclaration" /\ call.returned
    /\ ExplicitExtendsTypes(call.args.node) = <<HeritageType("Identifier", "Base", <<>>, "HeritageClause", FALSE)>>
    /\ TagClasses(call.args.node, "extends") = <<>>
    /\ Len(call.result) = 2
    /\ call.result[1].d = "interface"
    /\ ExtendsTypesOf(call.result, "interface") = ExplicitExtendsTypes(call.args.node)
    /\ call.result[2].d = "class"
    /\ call.result[2].heritageClauses = <<>>

\* The tags that document a parameter: those of its name and the dotted ones
\* beneath it
OwnTags(tags, name) == SelectSeq(tags, LAMBDA tag : tag.name = name \/ StartsWith(tag.name, name \o <<".">>))

\* The function with other tags in its doc block
WithTags(node, tags) == [node EXCEPT !.jsDoc = <<Doc(tags)>>]

Without(tags, j) == SubSeq(tags, 1, j - 1) \o SubSeq(tags, j + 1, Len(tags))

\* The declaration of the i-th parameter is what its own tags alone give, and
\* is another one without any of its own tags whose dotted prefixes are all
\* documented
DeclaredFromOwnTags(node, tags, i, declaration) ==
    /\ declaration = GenerateParameterDeclarations(WithTags(node, OwnTags(tags, node.parameters[i].name)))[i]
    /\ \A j \in 1..Len(OwnTags(tags, node.parameters[i].name)) :
          WellRooted(tags, OwnTags(tags, node.parameters[i].name)[j].name)
             => declaration # GenerateParameterDeclarations(
                                  WithTags(node, Without(OwnTags(tags, node.parameters[i].name), j)))[i]

\* C26: the type and the optionality generated for a parameter p come from
\* exactly the param tags named p and the dotted tags beneath p (p.x, p.x.y):
\* each of them contributes, and a tag of another parameter does not, also
\* when the other parameter's name begins with the characters of p.
C26_OnlyOwnTagsContribute ==
    (call.fn = "generateParameterDeclarations" /\ call.returned) =>
        \A i \in 1..Len(call.args.node.parameters) :
            DeclaredFromOwnTags(call.args.node, call.args.node.jsDoc[1].tags, i, call.result[i])

\* A class member declared as a property whose type is the reference
\* Class.member with type arguments
IsSyntheticTypeProperty(decl, className) ==
    /\ decl.d = "property"
    /\ IsTypeReference(decl.type)
    /\ decl.type.typeName = Dotted(className, decl.name)

\* The entry of a class has, for a member declared that way, an entry of the
\* member's name built for a member with as many template tags as the
\* reference has type arguments, and its alias is declared in the namespace
\* of the class
SyntheticTypeDeclared(name, entry, decl, decls) ==
    /\ entry.hasMembers
    /\ MapHas(entry.members, decl.name)
    /\ IsSynthetic(MapGet(entry.members, decl.name))
    /\ Len(GetAllJSDocTags(MapGet(entry.members, decl.name).source, {"template"})) = Len(decl.type.typeArguments)
    /\ Declares(NamespaceBody(decls, name), "type", decl.name)

\* The same for every member of the class declared for an entry
ClassReferencesDeclared(name, entry, decls) ==
    \A n \in 1..Len(decls) :
        (decls[n].d = "class" /\ decls[n].name = entry.node.name) =>
            \A m \in 1..Len(decls[n].members) :
                IsSyntheticTypeProperty(decls[n].members[m], entry.node.name)
                    => SyntheticTypeDeclared(name, entry, decls[n].members[m], decls)

\* C27: the generated file has no dangling reference to a synthetic type:
\* whenever a static abstract generic method m of a class C is declared as a
\* property of type C.m with k type arguments, an entry m built for that
\* member is registered in the namespace of C and a type alias m, with k
\* type parameters, is declared in that namespace.
C27_NoDanglingSyntheticReference ==
    status = "done" =>
        \A i \in 1..Len(namespaces) :
            (namespaces[i].v.type # "undefined" /\ namespaces[i].v.node.k = "class")
                => ClassReferencesDeclared(namespaces[i].k, namespaces[i].v, MainBody(output))

(***************************************************************************)
(* The Rollup plugins.  Rollup calls the hooks of the generator plugin in  *)
(* the order buildStart, moduleParsed (once for every module of the        *)
(* build), buildEnd, and then those of the output plugin in the order      *)
(* outputOptions, renderStart, generateBundle.  A file name is a sequence  *)
(* of tokens, a directory separator and an extension being tokens of their *)
(* own: "dist/lib.js" is <<"dist", "/", "lib", ".js">>.                    *)
(***************************************************************************)
\* Builds run one after the other by the same plugin instance (watch mode)
MaxBuilds == 2

\* Outputs generated from one build
MaxOutputs == 1

\* The configuration objects a caller passes to generateDeclarations: every
\* property may be left out
PluginOptionValues ==
    [moduleName |-> Str("m"), defaultExport |-> Str("A"), assetName |-> Str("types")]

GeneratorOptions ==
    {[k \in keys |-> PluginOptionValues[k]] :
        keys \in SUBSET {"moduleName", "defaultExport", "assetName"}}

\* A property of the configuration object is there and truthy
HasOption(options, key) == key \in DOMAIN options /\ options[key] # <<>>

\* const saneOptions = !!(moduleName && defaultExport)
SaneOptions(options) == HasOption(options, "moduleName") /\ HasOption(options, "defaultExport")

\* The destructuring default assetName = moduleName
AssetName(options) ==
    IF "assetName" \in DOMAIN options THEN options.assetName
    ELSE IF "moduleName" \in DOMAIN options THEN options.moduleName
    ELSE Str("undefined")

\* The modules the external option of the build marks as external
External == {"ext"}

\* What Rollup tells moduleParsed about a module: a.js is the entry point,
\* b.js is imported by it, ext is external; the code of a.js can have changed
\* from one build to the next
ModuleInfos ==
    {[id |-> "a.js", code |-> c, isExternal |-> FALSE, isEntry |-> TRUE,
      importedIds |-> <<"ext", "b.js">>] : c \in {"v1", "v2"}}
    \cup {[id |-> "b.js", code |-> "v1", isExternal |-> FALSE, isEntry |-> FALSE,
           importedIds |-> <<>>]}
    \cup {[id |-> "ext", code |-> "", isExternal |-> TRUE, isEntry |-> FALSE,
           importedIds |-> <<>>]}

\* generateDeclarations(options) has returned the plugin: the variables its
\* hooks close over, entryFiles and externalModules still unassigned, and
\* what the hooks have done to Rollup (warnings, emitted files) and been
\* told by it (parsed) since the build began, previous counting the modules
\* of the build before
GenerateDeclarations(options) ==
    [name |-> "OstensiblyTyped", options |-> options,
     sourceFiles |-> EmptyMap, entryFiles |-> <<>>, externalModules |-> <<>>,
     isExternal |-> {}, assetReference |-> <<>>,
     phase |-> "created", builds |-> 0,
     warnings |-> <<>>, emitted |-> <<>>, parsed |-> <<>>, previous |-> 0]

\* The variables buildStart leaves behind it, as the early version of the
\* plugin did: its entryFiles was a constant array nothing emptied
BuildStartKeepingEntryFiles(g) ==
    [g EXCEPT !.sourceFiles = EmptyMap, !.externalModules = <<>>, !.isExternal = External]

\* buildStart({external}): the closure's collections are emptied
BuildStartClosure(g) ==
    [g EXCEPT !.sourceFiles = EmptyMap, !.entryFiles = <<>>,
              !.externalModules = <<>>, !.isExternal = External]

\* The warnings of buildStart, one for every missing required option
BuildStartWarnings(options) ==
    (IF ~HasOption(options, "moduleName") THEN <<"moduleName">> ELSE <<>>)
    \o (IF ~HasOption(options, "defaultExport") THEN <<"defaultExport">> ELSE <<>>)

\* The hook buildStart: a new build begins, with no file emitted and no
\* output generated yet
BuildStart ==
    /\ generator.name = "OstensiblyTyped"
    /\ generator.phase \in {"created", "built"}
    /\ outputPlugin.phase \in {"created", "generated"}
    /\ generator.builds < MaxBuilds
    /\ generator' = [BuildStartClosure(generator) EXCEPT
                        !.phase = "building", !.builds = @ + 1,
                        !.warnings = BuildStartWarnings(generator.options),
                        !.emitted = <<>>, !.parsed = <<>>,
                        !.previous = Len(generator.parsed)]
    /\ outputPlugin' = [outputPlugin EXCEPT !.outputs = 0, !.phase = "created",
                                             !.format = "none", !.given = EmptyMap,
                                             !.bundle = EmptyMap, !.threw = "none"]
    /\ UNCHANGED <<namespaces, modules, defaultExport, status, output, visited, last, call>>

\* The variables moduleParsed(info) leaves behind it when it records whatever
\* the options are
ModuleParsedUnguarded(g, info) ==
    [g EXCEPT !.sourceFiles = IF ~info.isExternal THEN MapSet(@, info.id, info.code) ELSE @,
              !.entryFiles = IF info.isEntry THEN Append(@, info.id) ELSE @,
              !.externalModules =
                  IF info.isEntry
                  THEN @ \o SelectSeq(info.importedIds, LAMBDA id : id \in g.isExternal)
                  ELSE @]

\* moduleParsed(info)
ModuleParsedClosure(g, info) ==
    IF SaneOptions(g.options) THEN ModuleParsedUnguarded(g, info) ELSE g

\* The hook moduleParsed, called once for every module of the build
ModuleParsed(info) ==
    /\ generator.name = "OstensiblyTyped"
    /\ generator.phase = "building"
    /\ \A i \in 1..Len(generator.parsed) : generator.parsed[i].id # info.id
    /\ generator' = [ModuleParsedClosure(generator, info) EXCEPT !.parsed = Append(@, info)]
    /\ UNCHANGED <<namespaces, modules, defaultExport, status, output, visited, last, call, outputPlugin>>

\* The arguments docsToDefinitions is called with stand for the text it returns
DocsToDefinitions(g) ==
    [moduleName |-> g.options.moduleName, defaultExport |-> g.options.defaultExport,
     sourceFiles |-> g.sourceFiles, entryFiles |-> g.entryFiles,
     externalModules |-> g.externalModules]

\* The asset buildEnd emits
EmittedAsset(g) ==
    [type |-> "asset", fileName |-> AssetName(g.options) \o <<".d.ts">>,
     source |-> DocsToDefinitions(g)]

\* The hook buildEnd: this.emitFile returns a reference to the emitted file
BuildEnd ==
    /\ generator.name = "OstensiblyTyped"
    /\ generator.phase = "building"
    /\ generator' =
         IF SaneOptions(generator.options)
         THEN [generator EXCEPT !.phase = "built",
                                !.emitted = Append(@, EmittedAsset(generator)),
                                !.assetReference = <<"ref", generator.builds>>]
         ELSE [generator EXCEPT !.phase = "built"]
    /\ UNCHANGED <<namespaces, modules, defaultExport, status, output, visited, last, call, outputPlugin>>

\* The configuration objects a caller passes to filterGeneratedBundle, the
\* defaults filled in
OutputPluginOptions ==
    {[emitDeclarationOnly |-> e, formats |-> {"es", "esm"}] : e \in BOOLEAN}

\* filterGeneratedBundle(options) has returned the plugin: the variables its
\* hooks close over (outFileName <<>> while undefined, dtsGen the name of the
\* plugin whose api it holds), the bundle the last generateBundle was given
\* (given) and as the call left it (bundle), and whether the call threw
FilterGeneratedBundle(options) ==
    [name |-> "OstensiblyTyped", options |-> options,
     emitDeclarationOnly |-> options.emitDeclarationOnly,
     formats |-> options.formats, dtsGen |-> "undefined", outFileName |-> <<>>,
     phase |-> "created", outputs |-> 0,
     format |-> "none", given |-> EmptyMap, bundle |-> EmptyMap, threw |-> "none"]

\* The file options of an output: none (dir is set instead), or a path
OutputFiles ==
    {<<>>, <<"dist", "/", "m", ".js">>, <<"dist", "/", "m", ".d.ts">>}

OutputFormats == {"es", "cjs"}

\* path.basename: what follows the last separator
BaseName(file) ==
    IF \E i \in 1..Len(file) : file[i] = "/"
    THEN SubSeq(file, (CHOOSE i \in 1..Len(file) :
                          file[i] = "/" /\ \A j \in (i + 1)..Len(file) : file[j] # "/") + 1,
                Len(file))
    ELSE file

\* String.prototype.endsWith(".d.ts")
EndsWithDts(name) == Len(name) > 0 /\ name[Len(name)] = ".d.ts"

\* The hook outputOptions({file, dir, ...options})
OutputOptions(file) ==
    /\ outputPlugin.name = "OstensiblyTyped"
    /\ generator.phase = "built"
    /\ outputPlugin.phase \in {"created", "generated"}
    /\ outputPlugin.outputs < MaxOutputs
    /\ outputPlugin' = [outputPlugin EXCEPT
                           !.outFileName = IF file # <<>> THEN BaseName(file) ELSE <<>>,
                           !.phase = "options", !.outputs = @ + 1]
    /\ UNCHANGED <<namespaces, modules, defaultExport, status, output, visited, last, call, generator>>

\* The hook renderStart(_, {plugins}): the generator is among the plugins
RenderStart ==
    /\ outputPlugin.name = "OstensiblyTyped"
    /\ outputPlugin.phase = "options"
    /\ outputPlugin' = [outputPlugin EXCEPT !.dtsGen = generator.name, !.phase = "rendering"]
    /\ UNCHANGED <<namespaces, modules, defaultExport, status, output, visited, last, call, generator>>

\* The order of localeCompare on the module ids
FileRank == [i \in {"a.js", "b.js"} |-> IF i = "a.js" THEN 1 ELSE 2]

\* api.getRootFileNames(): the keys of sourceFiles, sorted
RECURSIVE SortedFrom(_, _)
SortedFrom(keys, rank) ==
    IF rank > 2 THEN <<>>
    ELSE SelectSeq(keys, LAMBDA k : FileRank[k] = rank) \o SortedFrom(keys, rank + 1)

GetRootFileNames(g) == SortedFrom(MapKeys(g.sourceFiles), 1)

\* this.getFileName(reference): the name of the file buildEnd emitted
GetFileName(g) == g.emitted[Len(g.emitted)].fileName

\* A file of the bundle
OutputChunk(fileName) == [type |-> "chunk", fileName |-> fileName, originalFileNames |-> <<>>]

OutputAsset(fileName) == [type |-> "asset", fileName |-> fileName, originalFileNames |-> <<>>]

\* The bundle Rollup hands to generateBundle: the chunk of the entry point, a
\* stylesheet, and the declaration file the generator emitted
Bundle(g) ==
    <<[k |-> <<"a", ".js">>, v |-> OutputChunk(<<"a", ".js">>)],
      [k |-> <<"a", ".css">>, v |-> OutputAsset(<<"a", ".css">>)],
      [k |-> GetFileName(g), v |-> OutputAsset(GetFileName(g))]>>

\* delete bundle[key]
MapDelete(m, k) == SelectSeq(m, LAMBDA pair : pair.k # k)

\* const isGeneratedAsset = bundle[key].type === "asset" && key === generatedAssetName
IsGeneratedAsset(pair, generatedAssetName) ==
    pair.v.type = "asset" /\ pair.k = generatedAssetName

\* The loop of generateBundle over the keys of the bundle
FilteredBundle(bundle, generatedAssetName, only, formats, format, rootFileNames) ==
    SelectSeq([i \in 1..Len(bundle) |->
                  IF IsGeneratedAsset(bundle[i], generatedAssetName)
                  THEN [bundle[i] EXCEPT !.v.originalFileNames = @ \o rootFileNames]
                  ELSE bundle[i]],
              LAMBDA pair :
                  ~(IF only THEN ~IsGeneratedAsset(pair, generatedAssetName)
                    ELSE IsGeneratedAsset(pair, generatedAssetName) /\ format \notin formats))

\* The renaming at the end of generateBundle: Object.assign throws a TypeError
\* when the bundle has no file of the generated name
RenamedBundle(bundle, outFileName, generatedAssetName) ==
    IF outFileName # <<>> /\ outFileName # generatedAssetName
    THEN IF MapHas(bundle, generatedAssetName)
         THEN [threw |-> "none",
               bundle |-> MapDelete(MapSet(bundle, outFileName,
                                           [MapGet(bundle, generatedAssetName) EXCEPT
                                               !.fileName = outFileName]),
                                    generatedAssetName)]
         ELSE [threw |-> "TypeError", bundle |-> bundle]
    ELSE [threw |-> "none", bundle |-> bundle]

\* generateBundle({format}, bundle): what it leaves of the plugin
GenerateBundleClosure(p, g, format, bundle) ==
    [p EXCEPT !.emitDeclarationOnly = @ \/ EndsWithDts(p.outFileName),
              !.format = format, !.given = bundle,
              !.bundle = RenamedBundle(
                             FilteredBundle(bundle, GetFileName(g),
                                            p.emitDeclarationOnly \/ EndsWithDts(p.outFileName),
                                            p.formats, format, GetRootFileNames(g)),
                             p.outFileName, GetFileName(g)).bundle,
              !.threw = RenamedBundle(
                             FilteredBundle(bundle, GetFileName(g),
                                            p.emitDeclarationOnly \/ EndsWithDts(p.outFileName),
                                            p.formats, format, GetRootFileNames(g)),
                             p.outFileName, GetFileName(g)).threw]

\* The hook generateBundle, for an output of a build that emitted the
\* declaration file
GenerateBundle(format) ==
    /\ outputPlugin.name = "OstensiblyTyped"
    /\ outputPlugin.phase = "rendering"
    /\ generator.emitted # <<>>
    /\ outputPlugin' = [GenerateBundleClosure(outputPlugin, generator, format, Bundle(generator))
                            EXCEPT !.phase = "generated"]
    /\ UNCHANGED <<namespaces, modules, defaultExport, status, output, visited, last, call, generator>>

\* The plugins are created with the options of the caller
InitPlugin ==
    /\ namespaces = EmptyMap
    /\ modules = EmptyMap
    /\ defaultExport = pA
    /\ status = "idle"
    /\ output = <<>>
    /\ visited = 0
    /\ last = [node |-> "none", events |-> {}]
    /\ call = NoCall
    /\ generator \in {GenerateDeclarations(o) : o \in GeneratorOptions}
    /\ outputPlugin \in {FilterGeneratedBundle(o) : o \in OutputPluginOptions}

NextPlugin ==
    \/ BuildStart
    \/ \E info \in ModuleInfos : ModuleParsed(info)
    \/ BuildEnd
    \/ \E file \in OutputFiles : OutputOptions(file)
    \/ RenderStart
    \/ \E format \in OutputFormats : GenerateBundle(format)

SpecPlugin == InitPlugin /\ [][NextPlugin]_vars

(***************************************************************************)
(* The generator plugin                                                    *)
(***************************************************************************)
\* The source files among the modules Rollup announced, with their code
SourceFilesOf(parsed) ==
    [i \in 1..Len(SelectSeq(parsed, LAMBDA info : ~info.isExternal)) |->
        [k |-> SelectSeq(parsed, LAMBDA info : ~info.isExternal)[i].id,
         v |-> SelectSeq(parsed, LAMBDA info : ~info.isExternal)[i].code]]

\* The entry points among the modules Rollup announced
EntryFilesOf(parsed) ==
    [i \in 1..Len(SelectSeq(parsed, LAMBDA info : info.isEntry)) |->
        SelectSeq(parsed, LAMBDA info : info.isEntry)[i].id]

\* The external modules the entry points among them import
RECURSIVE ExternalModulesOf(_)
ExternalModulesOf(parsed) ==
    IF parsed = <<>> THEN <<>>
    ELSE (IF Head(parsed).isEntry
          THEN SelectSeq(Head(parsed).importedIds, LAMBDA id : id \in External)
          ELSE <<>>) \o ExternalModulesOf(Tail(parsed))

\* C28: in every sequence of builds, the source files, entry files and
\* external modules handed to the generator at buildEnd are exactly those that
\* moduleParsed recorded since the most recent buildStart: nothing is carried
\* over from an earlier build.
C28_OnlyThisBuildHandedOver ==
    (generator.name = "OstensiblyTyped" /\ generator.phase = "built"
        /\ generator.emitted # <<>>)
    => /\ generator.emitted[1].source.sourceFiles = SourceFilesOf(generator.parsed)
       /\ generator.emitted[1].source.entryFiles = EntryFilesOf(generator.parsed)
       /\ generator.emitted[1].source.externalModules = ExternalModulesOf(generator.parsed)

\* The second build has ended; the build before announced an entry point with
\* an external import and another source file, this one only b.js
C28_Witness ==
    /\ generator.name = "OstensiblyTyped" /\ generator.phase = "built"
    /\ generator.builds = 2 /\ generator.previous = 3
    /\ generator.emitted # <<>>
    /\ Len(generator.parsed) = 1 /\ generator.parsed[1].id = "b.js"
    /\ generator.emitted[1].source.entryFiles = <<>>

\* C29: when moduleName or defaultExport is missing, buildStart warns once
\* for each missing option, moduleParsed records nothing and buildEnd emits
\* no file; when both are there buildEnd emits exactly one asset, named
\* <assetName>.d.ts, assetName being moduleName unless the caller set it.
C29_DisabledWithoutRequiredOptions ==
    (generator.name = "OstensiblyTyped" /\ generator.phase \in {"building", "built"})
    => IF {"moduleName", "defaultExport"} \subseteq DOMAIN generator.options
       THEN /\ generator.warnings = <<>>
            /\ generator.phase = "built" =>
                 /\ Len(generator.emitted) = 1
                 /\ generator.emitted[1].type = "asset"
                 /\ generator.emitted[1].fileName =
                      (IF "assetName" \in DOMAIN generator.options
                       THEN generator.options.assetName
                       ELSE generator.options.moduleName) \o <<".d.ts">>
       ELSE /\ \A k \in {"moduleName", "defaultExport"} :
                 Cardinality({i \in 1..Len(generator.warnings) : generator.warnings[i] = k})
                     = IF k \in DOMAIN generator.options THEN 0 ELSE 1
            /\ generator.sourceFiles = EmptyMap
            /\ generator.entryFiles = <<>>
            /\ generator.externalModules = <<>>
            /\ generator.emitted = <<>>

\* Neither required option was given: the build has ended after the entry
\* point and b.js were announced
C29_Witness ==
    /\ generator.name = "OstensiblyTyped" /\ generator.phase = "built"
    /\ DOMAIN generator.options = {"assetName"}
    /\ Len(generator.warnings) = 2
    /\ Len(generator.parsed) = 2 /\ generator.parsed[1].isEntry
    /\ generator.emitted = <<>>

(***************************************************************************)
(* The output plugin                                                       *)
(***************************************************************************)
\* The name the declaration file is to have in the bundle of this output
DeclarationNameWanted ==
    IF outputPlugin.outFileName # <<>> /\ outputPlugin.outFileName # GetFileName(generator)
    THEN outputPlugin.outFileName
    ELSE GetFileName(generator)

\* Every file the bundle was given beside the declaration file is still there
OtherFilesKept ==
    \A i \in 1..Len(outputPlugin.given) :
        outputPlugin.given[i].k # GetFileName(generator)
        => /\ MapHas(outputPlugin.bundle, outputPlugin.given[i].k)
           /\ MapGet(outputPlugin.bundle, outputPlugin.given[i].k) = outputPlugin.given[i].v

\* C30: generateBundle returns without an error for every output format, file
\* option and emitDeclarationOnly; with emitDeclarationOnly, or a file option
\* ending in .d.ts, the bundle then holds the declaration file alone;
\* otherwise every other file is kept and the declaration file is kept exactly
\* when the format is one of formats; a kept declaration file goes by the base
\* name of the file option when that is set and is another name.
C30_GenerateBundleCompletes ==
    (outputPlugin.name = "OstensiblyTyped" /\ outputPlugin.phase = "generated")
    => /\ outputPlugin.threw = "none"
       /\ IF outputPlugin.options.emitDeclarationOnly \/ EndsWithDts(outputPlugin.outFileName)
          THEN MapKeys(outputPlugin.bundle) = <<DeclarationNameWanted>>
          ELSE /\ OtherFilesKept
               /\ MapHas(outputPlugin.bundle, DeclarationNameWanted)
                    <=> outputPlugin.format \in outputPlugin.formats
               /\ DeclarationNameWanted # GetFileName(generator)
                    => ~MapHas(outputPlugin.bundle, GetFileName(generator))

====
